---- MODULE Spec2Model ----
(***************************************************************************)
(* A model of the spending agent's two core components:                    *)
(*   - the incremental transaction synchronisation of                      *)
(*     backend/services/transaction_sync.py (TransactionSyncService) over  *)
(*     the SQLAlchemy session and tables of backend/database.py, and       *)
(*   - the query-answering pipeline of backend/agent_graph.py.             *)
(* Spec is the synchronisation of one bank connection (one PlaidItem row)  *)
(* through one session; AgentSpec is one run of process_query.             *)
(* TerminationSpec is the synchronisation without process death, under     *)
(* fairness; RouteSpec and OverlapSpec are the sync-transactions operation *)
(* and two overlapping invocations; ConcurrentSpec is two interleaved      *)
(* pipeline runs; CoreSpec is either operation; SummarySpec is one call of *)
(* calculate_summary.                                                      *)
(***************************************************************************)
EXTENDS Integers, Sequences, FiniteSets, TLC

VARIABLES
    \* ---- the provider (Plaid) ----
    feed,            \* the change feed delivered so far: a sequence of pages
    \* ---- the store (committed rows) ----
    accounts,        \* rows of table accounts
    transactions,    \* rows of table transactions
    plaid_item,      \* the persisted row of the connection (cursor, last_sync)
    \* ---- the SQLAlchemy session of the service (self.db) ----
    session,         \* pending, unflushed changes (autoflush=False)
    \* ---- sync_item: position and locals ----
    pc,
    cursor,
    has_more,
    sync_response,
    sync_summary,
    now,             \* the clock read by datetime.utcnow(): the invocation number
    \* ---- history of the run, read by the properties only ----
    hist,
    \* ---- AgentState of one process_query run ----
    messages,
    query_type,
    sql_query,
    query_results,
    analysis,
    final_response,
    node,            \* the node of the graph that runs next
    \* ---- history of the pipeline run, read by the properties only ----
    run,
    \* ---- one call of the tool calculate_summary ----
    data,            \* its argument data
    summary_type,    \* its argument summary_type
    summary,         \* what it returned
    \* ---- the sync-transactions operation of api/plaid_routes.py ----
    route,           \* its position, its connections and total_summary
    \* ---- a second sync_item invocation, in another request ----
    other            \* its session and locals while it is not the one running

agentVars == <<messages, query_type, sql_query, query_results, analysis,
               final_response, node, run>>

toolVars == <<data, summary_type, summary>>

extraVars == <<toolVars, route, other>>

syncVars == <<feed, accounts, transactions, plaid_item, session, pc, cursor,
              has_more, sync_response, sync_summary, now, hist>>

(***************************************************************************)
(* Bounds of the model.                                                    *)
(***************************************************************************)
MaxPages   == 2      \* pages the provider's feed ever holds
MaxPageOps == 2      \* records (added + modified + removed) on one page
MaxAdded   == 2      \* records in one page's added list
MaxSyncs   == 3      \* sync_item invocations in one behaviour

\* Python's None, and a value that is present.
None == <<>>
Some(x) == <<x>>

(***************************************************************************)
(* Provider data.  A date stands for the provider's 'YYYY-MM-DD' text.     *)
(***************************************************************************)
TxnIds == {"t1", "t2"}

Payloads ==
    { [amount |-> 1250, date |-> [year |-> 2024, month |-> 1, day |-> 5],
       name |-> "Coffee Shop", category |-> <<"Food and Drink", "Coffee">>],
      [amount |-> -2000, date |-> [year |-> 2024, month |-> 2, day |-> 1],
       name |-> "Payroll"] }    \* a record without the 'category' key

TxnData(id, p) == [transaction_id |-> id, account_id |-> "acc1"] @@ p

TxnRecords == { TxnData(id, p) : id \in TxnIds, p \in Payloads }

RemovedRecords == { [transaction_id |-> id] : id \in TxnIds }

SeqsUpTo(S, n) == UNION { [1..k -> S] : k \in 0..n }

PageContents ==
    { [added |-> a, modified |-> m, removed |-> r] :
        a \in SeqsUpTo(TxnRecords, MaxAdded),
        m \in SeqsUpTo(TxnRecords, 1),
        r \in SeqsUpTo(RemovedRecords, 1) }

Pages == { c \in PageContents :
             Len(c.added) + Len(c.modified) + Len(c.removed) <= MaxPageOps }

EmptyPage == [added |-> <<>>, modified |-> <<>>, removed |-> <<>>]

\* The account and the transaction the provider holds for a connection.
AccountIdOf(item_id) == IF item_id = 1 THEN "acc1" ELSE "acc2"
TxnIdOf(item_id) == IF item_id = 1 THEN "t1" ELSE "t2"

\* What get_accounts may return for the connection: its one account, with
\* the balances of the day.
AccountData(avail) ==
    [account_id |-> "acc1", name |-> "Checking", official_name |-> "TOTAL CHECKING",
     type |-> "depository", subtype |-> "checking",
     balances |-> [available |-> avail, current |-> avail, limit |-> None,
                   iso_currency_code |-> "USD"]]

AccountResponses == { <<AccountData(100)>>, <<AccountData(250)>> }

\* The same for the connection of the given row.
AccountResponsesOf(item) ==
    { <<[accs[1] EXCEPT !.account_id = AccountIdOf(item.id)]>> :
        accs \in AccountResponses }

(***************************************************************************)
(* PlaidService.sync_transactions: the page that follows the position the  *)
(* cursor denotes.  A cursor is None (first sync) or a token; the token of *)
(* a position is the number of pages that precede it.                      *)
(***************************************************************************)
Position(c) == IF c = None THEN 0 ELSE c[1]

Response(page, more, next) ==
    [added |-> page.added, modified |-> page.modified, removed |-> page.removed,
     next_cursor |-> next, has_more |-> more]

NoResponse == Response(EmptyPage, FALSE, None)

(***************************************************************************)
(* The session: new objects not yet flushed, attribute changes of loaded   *)
(* rows, and rows marked for deletion.  With autoflush=False none of it    *)
(* is visible to a query before commit().                                  *)
(***************************************************************************)
EmptySession ==
    [new_accounts |-> <<>>, dirty_accounts |-> <<>>,
     new_transactions |-> <<>>, dirty_transactions |-> <<>>,
     deleted |-> {}]

Max(S) == IF S = {} THEN 0 ELSE CHOOSE x \in S : \A y \in S : y <= x

Range(s) == { s[i] : i \in DOMAIN s }

(***************************************************************************)
(* _sync_accounts, one account of the provider's list: a stored row is     *)
(* overwritten, a missing one is created.                                  *)
(***************************************************************************)
AccountAttrs(acc) ==
    [name |-> acc.name, official_name |-> acc.official_name,
     type |-> acc.type, subtype |-> acc.subtype,
     balance_available |-> acc.balances.available,
     balance_current |-> acc.balances.current,
     balance_limit |-> acc.balances.limit,
     currency |-> IF "iso_currency_code" \in DOMAIN acc.balances
                  THEN acc.balances.iso_currency_code ELSE "USD"]

\* An account sync that leaves a stored row as it is.
SyncAccountKeepingStored(sess, item, acc) ==
    IF \E a \in accounts : a.account_id = acc.account_id
    THEN sess
    ELSE [sess EXCEPT !.new_accounts =
              Append(@, [plaid_item_id |-> item.id, account_id |-> acc.account_id,
                         attrs |-> [name |-> acc.name,
                                    official_name |-> acc.official_name,
                                    type |-> acc.type, subtype |-> acc.subtype,
                                    balance_available |-> acc.balances.available,
                                    balance_current |-> acc.balances.current,
                                    balance_limit |-> acc.balances.limit,
                                    currency |-> "USD"]])]

\* Lines 80-102: the row is looked up by account_id, created when missing,
\* and its attributes are assigned.
SyncAccount(sess, item, acc) ==
    IF \E a \in accounts : a.account_id = acc.account_id
    THEN [sess EXCEPT !.dirty_accounts =
              (acc.account_id :> AccountAttrs(acc)) @@ @]
    ELSE [sess EXCEPT !.new_accounts =
              Append(@, [plaid_item_id |-> item.id, account_id |-> acc.account_id,
                         attrs |-> AccountAttrs(acc)])]

RECURSIVE SyncAccounts(_, _, _)
SyncAccounts(sess, item, accs) ==
    IF accs = <<>> THEN sess
    ELSE SyncAccounts(SyncAccount(sess, item, Head(accs)), item, Tail(accs))

(***************************************************************************)
(* datetime.strptime(text, '%Y-%m-%d'): the date at midnight.              *)
(***************************************************************************)
Strptime(d) ==
    [year |-> d.year, month |-> d.month, day |-> d.day, hour |-> 0, minute |-> 0]

CategoryOf(txn_data) ==
    IF "category" \in DOMAIN txn_data THEN txn_data.category ELSE <<>>

(***************************************************************************)
(* _add_transaction: skipped when the account is not found by the query,   *)
(* otherwise a new Transaction object is added to the session.             *)
(***************************************************************************)
AddTransaction(sess, item, txn_data) ==
    LET found == { a \in accounts : /\ a.plaid_item_id = item.id
                                    /\ a.account_id = txn_data.account_id }
    IN  IF found = {} THEN sess
        ELSE LET account == CHOOSE a \in found : TRUE
             IN  [sess EXCEPT !.new_transactions =
                     Append(@, [user_id |-> item.user_id,
                                plaid_transaction_id |-> txn_data.transaction_id,
                                account_id |-> account.id,
                                amount |-> txn_data.amount,
                                date |-> Strptime(txn_data.date),
                                name |-> txn_data.name,
                                category |-> CategoryOf(txn_data)])]

\* An update that creates the row it does not find.
UpdateTransactionUpserting(sess, txn_data) ==
    IF \E t \in transactions : t.plaid_transaction_id = txn_data.transaction_id
    THEN [sess EXCEPT !.dirty_transactions =
              (txn_data.transaction_id :>
                  [amount |-> txn_data.amount, date |-> Strptime(txn_data.date),
                   name |-> txn_data.name, category |-> CategoryOf(txn_data)]) @@ @]
    ELSE [sess EXCEPT !.new_transactions =
              Append(@, [user_id |-> 1,
                         plaid_transaction_id |-> txn_data.transaction_id,
                         account_id |-> 1,
                         amount |-> txn_data.amount,
                         date |-> Strptime(txn_data.date),
                         name |-> txn_data.name,
                         category |-> CategoryOf(txn_data)])]

(***************************************************************************)
(* _update_transaction: the stored row, when there is one, gets the four   *)
(* fields of the record.                                                   *)
(***************************************************************************)
UpdateTransaction(sess, txn_data) ==
    IF \E t \in transactions : t.plaid_transaction_id = txn_data.transaction_id
    THEN [sess EXCEPT !.dirty_transactions =
              (txn_data.transaction_id :>
                  [amount |-> txn_data.amount, date |-> Strptime(txn_data.date),
                   name |-> txn_data.name, category |-> CategoryOf(txn_data)]) @@ @]
    ELSE sess

\* A removal that never marks the row.
RemoveTransactionIgnored(sess, transaction_id) == sess

(***************************************************************************)
(* _remove_transaction: the stored row, when there is one, is marked for   *)
(* deletion.                                                               *)
(***************************************************************************)
RemoveTransaction(sess, transaction_id) ==
    IF \E t \in transactions : t.plaid_transaction_id = transaction_id
    THEN [sess EXCEPT !.deleted = @ \cup {transaction_id}]
    ELSE sess

RECURSIVE AddAll(_, _, _)
AddAll(sess, item, txns) ==
    IF txns = <<>> THEN sess
    ELSE AddAll(AddTransaction(sess, item, Head(txns)), item, Tail(txns))

RECURSIVE UpdateAll(_, _)
UpdateAll(sess, txns) ==
    IF txns = <<>> THEN sess
    ELSE UpdateAll(UpdateTransaction(sess, Head(txns)), Tail(txns))

RECURSIVE RemoveAll(_, _)
RemoveAll(sess, txns) ==
    IF txns = <<>> THEN sess
    ELSE RemoveAll(RemoveTransaction(sess, Head(txns).transaction_id), Tail(txns))

\* The three loops of sync_item over one page, in the order of the code.
ApplyResponse(sess, item, resp) ==
    RemoveAll(UpdateAll(AddAll(sess, item, resp.added), resp.modified), resp.removed)

(***************************************************************************)
(* Session.commit(): the flush inserts the new rows (primary keys are the  *)
(* next rowids), writes the changed attributes and deletes the marked      *)
(* rows.  An insert that breaks a unique column (Account.account_id,       *)
(* Transaction.plaid_transaction_id) raises IntegrityError and nothing is  *)
(* written.                                                                *)
(***************************************************************************)
AccountKey(a) == a.account_id
TransactionKey(t) == t.plaid_transaction_id

DuplicateAccounts(s) ==
    \E i, j \in DOMAIN s : i /= j /\ AccountKey(s[i]) = AccountKey(s[j])

DuplicateTransactions(s) ==
    \E i, j \in DOMAIN s : i /= j /\ TransactionKey(s[i]) = TransactionKey(s[j])

UniqueViolation(sess) ==
    \/ DuplicateAccounts(sess.new_accounts)
    \/ \E i \in DOMAIN sess.new_accounts :
          \E a \in accounts : a.account_id = sess.new_accounts[i].account_id
    \/ DuplicateTransactions(sess.new_transactions)
    \/ \E i \in DOMAIN sess.new_transactions :
          \E t \in transactions :
             t.plaid_transaction_id = sess.new_transactions[i].plaid_transaction_id

FlushedAccounts(sess) ==
    LET base == Max({ a.id : a \in accounts })
        kept == { IF a.account_id \in DOMAIN sess.dirty_accounts
                  THEN [a EXCEPT !.attrs = sess.dirty_accounts[a.account_id]]
                  ELSE a : a \in accounts }
        new  == { [id |-> base + i,
                   plaid_item_id |-> sess.new_accounts[i].plaid_item_id,
                   account_id |-> sess.new_accounts[i].account_id,
                   attrs |-> sess.new_accounts[i].attrs] :
                  i \in DOMAIN sess.new_accounts }
    IN  kept \cup new

FlushedTransactions(sess) ==
    LET base == Max({ t.id : t \in transactions })
        kept == { t \in transactions : t.plaid_transaction_id \notin sess.deleted }
        upd  == { IF t.plaid_transaction_id \in DOMAIN sess.dirty_transactions
                  THEN LET d == sess.dirty_transactions[t.plaid_transaction_id]
                       IN  [t EXCEPT !.amount = d.amount, !.date = d.date,
                                     !.name = d.name, !.category = d.category]
                  ELSE t : t \in kept }
        new  == { [id |-> base + i,
                   user_id |-> sess.new_transactions[i].user_id,
                   plaid_transaction_id |-> sess.new_transactions[i].plaid_transaction_id,
                   account_id |-> sess.new_transactions[i].account_id,
                   amount |-> sess.new_transactions[i].amount,
                   date |-> sess.new_transactions[i].date,
                   name |-> sess.new_transactions[i].name,
                   category |-> sess.new_transactions[i].category] :
                  i \in DOMAIN sess.new_transactions }
    IN  upd \cup new

\* A handler that forgets the rollback.
RollbackOmitted(sess) == sess

\* Session.rollback(): every pending change is dropped.
Rollback(sess) == EmptySession

\* A handler that saves the local cursor on its way out.
ItemAfterRollbackSavingCursor(item, c) == [item EXCEPT !.cursor = c]

\* The connection's row after the except handler of sync_item: the handler
\* rolls back and writes nothing, so the row is as it was last committed.
ItemAfterRollback(item, c) == item

\* A persist that writes the sync time alone.
PersistedItemWithoutCursor(item, c, t) == [item EXCEPT !.last_sync = Some(t)]

\* The connection's row after lines 64-66: the cursor and the sync time.
PersistedItem(item, c, t) == [item EXCEPT !.cursor = c, !.last_sync = Some(t)]

NewSummary == [added |-> 0, modified |-> 0, removed |-> 0, errors |-> <<>>]

(***************************************************************************)
(* The state after the connection was linked: no account, no transaction,  *)
(* no cursor.                                                              *)
(***************************************************************************)
SyncInit ==
    /\ feed = <<>>
    /\ accounts = {}
    /\ transactions = {}
    /\ plaid_item = [id |-> 1, user_id |-> 1, cursor |-> None, last_sync |-> None]
    /\ session = EmptySession
    /\ pc = "idle"
    /\ cursor = None
    /\ has_more = FALSE
    /\ sync_response = NoResponse
    /\ sync_summary = NewSummary
    /\ now = 0
    /\ hist = [start |-> [cursor |-> None, last_sync |-> None],
               durable |-> [accounts |-> {}, transactions |-> {}],
               committed |-> {},
               page |-> 0,
               done |-> 0,
               redo |-> FALSE,
               before |-> {},
               queued |-> <<>>,
               asked |-> <<>>,
               got |-> <<>>,
               requests |-> 0, accs |-> <<>>, prior |-> {},
               outcome |-> "none"]

\* sync_item is entered (lines 15-22).
StartSync ==
    /\ pc \in {"idle", "returned", "crashed"}
    /\ now < MaxSyncs
    /\ now' = now + 1
    /\ sync_summary' = NewSummary
    /\ cursor' = None
    /\ has_more' = FALSE
    /\ sync_response' = NoResponse
    /\ pc' = "accounts"
    /\ hist' = [hist EXCEPT
                  !.start = [cursor |-> plaid_item.cursor,
                             last_sync |-> plaid_item.last_sync],
                  !.durable = [accounts |-> accounts, transactions |-> transactions],
                  !.page = 0, !.done = 0, !.redo = FALSE, !.before = {}, !.queued = <<>>,
                  !.asked = <<>>, !.got = <<>>, !.requests = 0, !.accs = <<>>,
                  !.prior = accounts,
                  !.outcome = "none"]
    /\ UNCHANGED <<feed, accounts, transactions, plaid_item, session>>
    /\ UNCHANGED <<agentVars, extraVars>>

\* The except handler (lines 68-72): rollback, the error text, the summary.
Raise(e) ==
    /\ session' = Rollback(session)
    /\ plaid_item' = ItemAfterRollback(plaid_item, cursor)
    /\ sync_summary' = [sync_summary EXCEPT !.errors = Append(@, e)]
    /\ pc' = "returned"

\* An account refresh that commits what it did.
AccountsAfterRefreshCommitted(sess) == FlushedAccounts(sess)

\* _sync_accounts (lines 74-102) neither flushes nor commits: the table is
\* as it was.
AccountsAfterRefresh(sess) == accounts

\* Lines 26-30: the accounts of the connection are refreshed in the session.
RefreshAccounts ==
    /\ pc = "accounts"
    /\ \E accs \in AccountResponsesOf(plaid_item) :
          /\ session' = SyncAccounts(session, plaid_item, accs)
          /\ hist' = [hist EXCEPT !.requests = @ + 1, !.accs = accs]
    /\ accounts' = AccountsAfterRefresh(session')
    /\ has_more' = TRUE
    /\ cursor' = plaid_item.cursor
    /\ pc' = "fetch"
    /\ UNCHANGED <<feed, transactions, plaid_item, sync_response,
                   sync_summary, now>>
    /\ UNCHANGED <<agentVars, extraVars>>

\* Lines 34-37: one page is requested from the provider.
FetchPage ==
    /\ pc = "fetch"
    /\ LET pos == Position(cursor)
       IN  \/ /\ pos < Len(feed)
              /\ sync_response' =
                    Response(feed[pos + 1], feed[pos + 1].has_more, Some(pos + 1))
              /\ feed' = feed
              /\ hist' = [hist EXCEPT !.page = pos + 1, !.requests = @ + 1,
                                      !.asked = Append(@, cursor),
                                      !.got = Append(@, [next_cursor |-> sync_response'.next_cursor,
                                                         has_more |-> sync_response'.has_more]),
                                      !.redo = (pos + 1) \in hist.committed,
                                      !.outcome = "none"]
           \/ /\ pos = Len(feed)
              /\ Len(feed) < MaxPages
              /\ \E p \in Pages, more \in BOOLEAN :
                    /\ more => Len(feed) + 1 < MaxPages
                    /\ feed' = Append(feed, p @@ [has_more |-> more])
                    /\ sync_response' = Response(p, more, Some(pos + 1))
              /\ hist' = [hist EXCEPT !.page = pos + 1, !.requests = @ + 1, !.redo = FALSE,
                                      !.asked = Append(@, cursor),
                                      !.got = Append(@, [next_cursor |-> sync_response'.next_cursor,
                                                         has_more |-> sync_response'.has_more]),
                                      !.outcome = "none"]
           \/ /\ pos = Len(feed)
              /\ IF feed = <<>> THEN TRUE ELSE ~feed[Len(feed)].has_more
              /\ sync_response' = Response(EmptyPage, FALSE, Some(pos))
              /\ feed' = feed
              /\ hist' = [hist EXCEPT !.page = 0, !.redo = FALSE, !.requests = @ + 1,
                                      !.asked = Append(@, cursor),
                                      !.got = Append(@, [next_cursor |-> sync_response'.next_cursor,
                                                         has_more |-> sync_response'.has_more]),
                                      !.outcome = "none"]
    /\ pc' = "apply"
    /\ UNCHANGED <<accounts, transactions, plaid_item, session, cursor, has_more,
                   sync_summary, now>>
    /\ UNCHANGED <<agentVars, extraVars>>

\* get_accounts or sync_transactions raises.
ProviderFails ==
    /\ pc \in {"accounts", "fetch"}
    /\ Raise("ApiException")
    /\ hist' = [hist EXCEPT !.requests = @ + 1]
    /\ UNCHANGED <<feed, accounts, transactions, cursor, has_more, sync_response,
                   now>>
    /\ UNCHANGED <<agentVars, extraVars>>

\* Counts of the records that find what they need in the store.
CountedWhenApplied(counts, resp) ==
    [counts EXCEPT
       !.added = @ + Cardinality({ i \in DOMAIN resp.added :
                     \E a \in accounts : a.account_id = resp.added[i].account_id }),
       !.modified = @ + Cardinality({ i \in DOMAIN resp.modified :
                     \E t \in transactions :
                        t.plaid_transaction_id = resp.modified[i].transaction_id }),
       !.removed = @ + Cardinality({ i \in DOMAIN resp.removed :
                     \E t \in transactions :
                        t.plaid_transaction_id = resp.removed[i].transaction_id })]

\* Lines 40-42: the lengths of the page's three lists are added to the counts.
Counted(counts, resp) ==
    [counts EXCEPT !.added = @ + Len(resp.added),
                   !.modified = @ + Len(resp.modified),
                   !.removed = @ + Len(resp.removed)]

\* Lines 40-58: the counts, the three loops, the local cursor.
ApplyPage ==
    /\ pc = "apply"
    /\ sync_summary' = Counted(sync_summary, sync_response)
    /\ session' = ApplyResponse(session, plaid_item, sync_response)
    /\ cursor' = sync_response.next_cursor
    /\ has_more' = sync_response.has_more
    /\ pc' = "commit"
    /\ hist' = [hist EXCEPT !.before = transactions,
                            !.queued = session'.new_transactions,
                            !.outcome = "pending"]
    /\ UNCHANGED <<feed, accounts, transactions, plaid_item, sync_response, now>>
    /\ UNCHANGED <<agentVars, extraVars>>

\* A loop that goes on whatever the page said.
AfterCommitAlwaysFetch(more) == "fetch"

\* Line 32, while has_more: the loop fetches again or is left.
AfterCommit(more) == IF more THEN "fetch" ELSE "persist"

\* Line 61: the page is committed.
CommitPage ==
    /\ pc = "commit"
    /\ ~UniqueViolation(session)
    /\ accounts' = FlushedAccounts(session)
    /\ transactions' = FlushedTransactions(session)
    /\ session' = EmptySession
    /\ pc' = AfterCommit(has_more)
    /\ hist' = [hist EXCEPT
                  !.committed = IF hist.page = 0 THEN @ ELSE @ \cup {hist.page},
                  !.durable = [accounts |-> accounts', transactions |-> transactions'],
                  !.done = @ + 1,
                  !.outcome = "ok"]
    /\ UNCHANGED <<feed, plaid_item, cursor, has_more, sync_response, sync_summary, now>>
    /\ UNCHANGED <<agentVars, extraVars>>

\* Line 61 raises: a unique column is broken, or the store fails.
CommitPageFails ==
    /\ pc = "commit"
    /\ \E e \in {"IntegrityError", "OperationalError"} :
          /\ e = "IntegrityError" => UniqueViolation(session)
          /\ Raise(e)
          /\ hist' = [hist EXCEPT !.outcome = e]
    /\ UNCHANGED <<feed, accounts, transactions, cursor, has_more, sync_response, now>>
    /\ UNCHANGED <<agentVars, extraVars>>

\* Lines 64-66: the loop is over, the cursor and the sync time are persisted.
PersistCursor ==
    /\ pc = "persist"
    /\ plaid_item' = PersistedItem(plaid_item, cursor, now)
    /\ pc' = "returned"
    /\ UNCHANGED <<feed, accounts, transactions, session, cursor, has_more,
                   sync_response, sync_summary, now, hist>>
    /\ UNCHANGED <<agentVars, extraVars>>

\* Line 66 raises.
PersistCursorFails ==
    /\ pc = "persist"
    /\ Raise("OperationalError")
    /\ UNCHANGED <<feed, accounts, transactions, cursor, has_more, sync_response,
                   now, hist>>
    /\ UNCHANGED <<agentVars, extraVars>>

\* The process dies inside sync_item: the session and the locals are lost,
\* the store keeps what was committed.
Crash ==
    /\ pc \in {"accounts", "fetch", "apply", "commit", "persist"}
    /\ session' = EmptySession
    /\ cursor' = None
    /\ has_more' = FALSE
    /\ sync_response' = NoResponse
    /\ sync_summary' = NewSummary
    /\ pc' = "crashed"
    /\ hist' = [hist EXCEPT !.queued = <<>>, !.before = {}, !.outcome = "none",
                            !.redo = FALSE, !.page = 0, !.done = 0,
                            !.asked = <<>>, !.got = <<>>,
                            !.requests = 0, !.accs = <<>>, !.prior = {}]
    /\ UNCHANGED <<feed, accounts, transactions, plaid_item, now>>
    /\ UNCHANGED <<agentVars, extraVars>>

SyncNext ==
    \/ StartSync
    \/ RefreshAccounts
    \/ FetchPage
    \/ ProviderFails
    \/ ApplyPage
    \/ CommitPage
    \/ CommitPageFails
    \/ PersistCursor
    \/ PersistCursorFails
    \/ Crash

(***************************************************************************)
(* The pipeline of agent_graph.py.  A text is a sequence of pieces; the    *)
(* replies to the classification prompt are sequences of characters, so    *)
(* that strip() and lower() act on them as they do in the code.            *)
(***************************************************************************)
MaxRows == 6         \* rows a query result holds
MaxHistory == 1      \* exchanges of the conversation history

Whitespace == {" ", "\t", "\n", "\r"}

UpperCase == <<"A", "B", "C", "D", "E", "F", "G", "H", "I", "J", "K", "L", "M",
               "N", "O", "P", "Q", "R", "S", "T", "U", "V", "W", "X", "Y", "Z">>
LowerCase == <<"a", "b", "c", "d", "e", "f", "g", "h", "i", "j", "k", "l", "m",
               "n", "o", "p", "q", "r", "s", "t", "u", "v", "w", "x", "y", "z">>

\* str.strip()
RECURSIVE LStrip(_)
LStrip(s) ==
    IF s = <<>> THEN s
    ELSE IF Head(s) \in Whitespace THEN LStrip(Tail(s)) ELSE s

RECURSIVE RStrip(_)
RStrip(s) ==
    IF s = <<>> THEN s
    ELSE IF s[Len(s)] \in Whitespace THEN RStrip(SubSeq(s, 1, Len(s) - 1)) ELSE s

Strip(s) == RStrip(LStrip(s))

\* str.lower()
LowerChar(c) ==
    IF \E i \in DOMAIN UpperCase : UpperCase[i] = c
    THEN LowerCase[CHOOSE i \in DOMAIN UpperCase : UpperCase[i] = c]
    ELSE c

Lower(s) == [i \in DOMAIN s |-> LowerChar(s[i])]

\* str.replace(piece, "")
RECURSIVE Without(_, _)
Without(s, piece) ==
    IF s = <<>> THEN s
    ELSE IF Head(s) = piece THEN Without(Tail(s), piece)
    ELSE <<Head(s)>> \o Without(Tail(s), piece)

Transaction == <<"t", "r", "a", "n", "s", "a", "c", "t", "i", "o", "n">>
Summary     == <<"s", "u", "m", "m", "a", "r", "y">>
General     == <<"g", "e", "n", "e", "r", "a", "l">>

Labels == {Transaction, Summary, General}

\* What the model may answer to the classification prompt.
ReplyCores ==
    { Transaction, Summary, General,
      <<"T", "r", "a", "n", "s", "a", "c", "t", "i", "o", "n">>,
      <<"S", "U", "M", "M", "A", "R", "Y">>,
      <<"G", "e", "n", "e", "r", "a", "L">>,
      <<"t", "r", "a", "n", "s", "a", "c", "t", "i", "o", "n", "s">>,
      <<"s", "u", "m", " ", "m", "a", "r", "y">>,
      <<"o", "t", "h", "e", "r">>,
      <<"\"", "g", "e", "n", "e", "r", "a", "l", "\"">>,
      <<>> }

Paddings == { <<>>, <<" ">>, <<"\n">>, <<"\t", " ">> }

ClassificationReplies ==
    { l \o c \o r : l \in Paddings, c \in ReplyCores, r \in Paddings }

\* A classification without the fallback of lines 179-180.
ClassificationUncoerced(reply) == Lower(Strip(reply))

\* A classification that forgets lower().
ClassificationCaseSensitive(reply) ==
    IF Strip(reply) \notin Labels THEN General ELSE Strip(reply)

\* Lines 176-180 of classify_query.
Classification(reply) ==
    LET query == Lower(Strip(reply))
    IN  IF query \notin Labels THEN General ELSE query

\* A routing that sends only 'transaction' to the analyze path.
RouteTransactionOnly(qt) ==
    IF qt = Transaction THEN "analyze_transactions" ELSE "general_chat"

\* route_after_classification
RouteAfterClassification(qt) ==
    IF qt \in {Transaction, Summary} THEN "analyze_transactions" ELSE "general_chat"

\* The reducer of AgentState.messages (operator.add): what a node returns
\* under the key is added to the value the state holds.
AddReducer(current, update) == current \o update

(***************************************************************************)
(* Messages, queries and replies.                                          *)
(***************************************************************************)
HumanMessage(content) == [type |-> "human", content |-> content]
AIMessage(content) == [type |-> "ai", content |-> content]

UserQueries == { <<"How much did I spend on coffee?">>, <<"hello">> }

Exchange == << [role |-> "user", content |-> <<"hi">>],
               [role |-> "assistant", content |-> <<"Hello! How can I help?">>] >>

RECURSIVE Repeat(_, _)
Repeat(s, n) == IF n = 0 THEN <<>> ELSE s \o Repeat(s, n - 1)

Histories == { Repeat(Exchange, n) : n \in 0..MaxHistory }

\* Lines 398-407 of process_query.
BuildMessages(conversation_history, user_query) ==
    [i \in DOMAIN conversation_history |->
        IF conversation_history[i].role = "user"
        THEN HumanMessage(conversation_history[i].content)
        ELSE AIMessage(conversation_history[i].content)]
    \o <<HumanMessage(user_query)>>

SystemPrompt == HumanMessage(<<"You are PennyWise, a friendly financial assistant.">>)

ChatReplies == { <<>>, <<"Happy to help with your finances.">> }

AnalysisReplies == { <<>>, <<"You spent $12.50 on coffee.">> }

\* The markdown code fence (three backquotes), bare and tagged sql.
Fence == "[fence]"
FenceSql == "[fence]sql"

SqlReplies ==
    { <<"SELECT", " name FROM transactions">>,
      <<FenceSql, "\n", "SELECT", " name FROM transactions", "\n", Fence>>,
      <<" ", "DELETE", " FROM transactions", "\n">>,
      <<"DROP", " TABLE transactions">>,
      <<"I cannot answer that.">>,
      <<>> }

\* Lines 231-234 of analyze_transactions.
CleanSql(reply) == Strip(Without(Without(Strip(reply), FenceSql), Fence))

(***************************************************************************)
(* execute_sql_query: the rows of the statement, or one error marker.      *)
(***************************************************************************)
ErrorMarker == [error |-> "SQL Error: (sqlite3.OperationalError)"]

Spent ==
    [name |-> "Coffee Shop", amount |-> -1250,
     date |-> <<"2024-01-05", " ", "00:00:00.000000">>]
Received ==
    [name |-> "Payroll", amount |-> 200000,
     date |-> <<"2024-02-01", "T", "00:00:00">>]
Aggregate == [total |-> 3250]
\* The row a sync stored for an expense: the provider's amount is positive.
Ingested ==
    [name |-> "Coffee Shop", amount |-> 1250,
     date |-> <<"2024-01-05", " ", "00:00:00.000000">>]
Free ==
    [name |-> "Voucher", amount |-> 0,
     date |-> <<"2024-03-09", " ", "00:00:00.000000">>]
Undated == [name |-> "Coffee Shop", amount |-> -1250]
ErrorColumn == [error |-> "card declined", name |-> "Coffee Shop"]

RowResults ==
    { [i \in 1..n |-> r] : n \in 1..MaxRows, r \in {Spent, Received, Aggregate} }
    \cup { <<Spent, Received>>, <<Aggregate, Spent, Received>>,
           <<ErrorColumn, Spent>>, <<Spent, ErrorColumn>>,
           <<Ingested>>, <<Ingested, Free, Spent, Undated>> }

ReturnsRows(query) == query /= <<>> /\ Head(query) = "SELECT"

\* INSERT, UPDATE and DELETE run inside the transaction the driver begins
\* for them; the driver begins none for a DDL statement, which therefore
\* takes effect at once.
InTransaction(query) ==
    query /= <<>> /\ Head(query) \in {"INSERT", "UPDATE", "DELETE"}

Ddl(query) == query /= <<>> /\ Head(query) \in {"DROP"}

\* Line 49, db.close(): the open transaction is rolled back.
SessionClose(committed, pending) == committed

\* Lines 35-43 and 49: what db.execute and the row loop do to the
\* transactions table and whether they raise.  A statement that returns no
\* rows raises when its result is iterated.
Execution(query, rows) ==
    IF ReturnsRows(query)
    THEN { [raised |-> FALSE, rows |-> r, store |-> SessionClose(rows, rows)] :
             r \in RowResults \cup { <<>> } }
         \cup { [raised |-> TRUE, rows |-> <<>>, store |-> SessionClose(rows, rows)] }
    ELSE IF InTransaction(query)
    THEN { [raised |-> TRUE, rows |-> <<>>, store |-> SessionClose(rows, {})] }
    ELSE IF Ddl(query)
    THEN { [raised |-> TRUE, rows |-> <<>>, store |-> {}] }
    ELSE { [raised |-> TRUE, rows |-> <<>>, store |-> SessionClose(rows, rows)] }

\* An except branch that returns no row at all.
ExecuteSqlQueryEmptyOnError(done) == done.rows

\* Lines 44-47: the rows, or the single error marker.
ExecuteSqlQuery(done) ==
    IF done.raised THEN <<ErrorMarker>> ELSE done.rows

Apology == <<"I couldn't retrieve the data. Let me try a different approach.">>

\* Line 251 of generate_insights: not results or "error" in results[0]
NoUsableRows(results) ==
    IF results = <<>> THEN TRUE ELSE "error" \in DOMAIN results[1]

\* A test that forgets the error marker.
HasDataIgnoringError(results) == results /= <<>>

\* Line 308 of format_response: results and "error" not in results[0]
HasData(results) ==
    IF results = <<>> THEN FALSE ELSE "error" \notin DOMAIN results[1]

(***************************************************************************)
(* The texts format_response composes.                                     *)
(***************************************************************************)
ListingLimit == 5

Digits == <<"0", "1", "2", "3", "4", "5", "6", "7", "8", "9">>

RECURSIVE Decimal(_)
Decimal(n) ==
    IF n < 10 THEN <<Digits[n + 1]>>
    ELSE Decimal(n \div 10) \o <<Digits[(n % 10) + 1]>>

Abs(n) == IF n < 0 THEN 0 - n ELSE n

\* f"${abs(amount):.2f}", the amount counted in cents
AmountStr(amount) ==
    <<"$">> \o Decimal(Abs(amount) \div 100) \o <<".">>
            \o <<Digits[((Abs(amount) % 100) \div 10) + 1]>>
            \o <<Digits[(Abs(amount) % 10) + 1]>>

\* A label that calls an amount of zero spent.
TypeStrZeroSpent(amount) == IF amount <= 0 THEN "spent" ELSE "received"

\* Line 319: "spent" if row['amount'] < 0 else "received"
TypeStr(amount) == IF amount < 0 THEN "spent" ELSE "received"

RECURSIVE BeforeT(_)
BeforeT(d) ==
    IF d = <<>> THEN d
    ELSE IF Head(d) = "T" THEN <<>> ELSE <<Head(d)>> \o BeforeT(Tail(d))

\* row['date'].split('T')[0] if 'T' in str(row['date']) else row['date']
DateStr(d) == IF "T" \in Range(d) THEN BeforeT(d) ELSE d

RowLine(row) ==
    IF {"name", "amount", "date"} \subseteq DOMAIN row
    THEN <<"- ">> \o DateStr(row.date) \o <<": ", row.name, " - ">>
         \o AmountStr(row.amount) \o <<" ", TypeStr(row.amount), "\n">>
    ELSE <<>>

RECURSIVE Listing(_)
Listing(results) ==
    IF results = <<>> THEN <<>>
    ELSE RowLine(Head(results)) \o Listing(Tail(results))

ListingHeader == "Here's the data I found:\n"

CountNote(n) == <<"\n(Showing analysis of ">> \o Decimal(n) \o <<" transactions)">>

\* A boundary that is off by one.
DataResponseBelowLimit(text, results) ==
    text \o <<"\n\n">>
         \o (IF Len(results) < ListingLimit
             THEN <<ListingHeader>> \o Listing(results)
             ELSE CountNote(Len(results)))

\* Lines 309-322 of format_response.
DataResponse(text, results) ==
    text \o <<"\n\n">>
         \o (IF Len(results) <= ListingLimit
             THEN <<ListingHeader>> \o Listing(results)
             ELSE CountNote(Len(results)))

\* Lines 299-303 of format_response: whether line 327 is reached.
FormatAssigns(final, qt) == final = <<>> /\ qt \in {Transaction, Summary}

\* A format_response that never assigns.
FormattedResponseUnassigned(final, qt, text, results) == final

\* A format_response without the skip of line 299.
FormattedResponseOverwriting(final, qt, text, results) ==
    IF HasData(results) THEN DataResponse(text, results) ELSE text

\* format_response: the final_response of the state it returns.
FormattedResponse(final, qt, text, results) ==
    IF FormatAssigns(final, qt)
    THEN IF HasData(results) THEN DataResponse(text, results) ELSE text
    ELSE final

(***************************************************************************)
(* One run of process_query.                                               *)
(***************************************************************************)
NewRun ==
    [path |-> <<>>, history |-> <<>>, reply |-> <<>>, prompt |-> <<>>,
     chat |-> <<>>, exec |-> "none", store |-> {}, writers |-> <<>>,
     log |-> <<>>,
     calls |-> [classify_query |-> 0, analyze_transactions |-> 0,
                generate_insights |-> 0, general_chat |-> 0],
     before |-> <<>>]

AgentIdle ==
    /\ messages = <<>>
    /\ query_type = <<>>
    /\ sql_query = <<>>
    /\ query_results = <<>>
    /\ analysis = <<>>
    /\ final_response = <<>>
    /\ node = "idle"
    /\ run = NewRun

\* Lines 397-417 of process_query: the initial state of the run.
AgentInit ==
    /\ \E h \in Histories, q \in UserQueries :
          /\ messages = BuildMessages(h, q)
          /\ run = [NewRun EXCEPT !.history = BuildMessages(h, q),
                                  !.store = transactions]
    /\ query_type = <<>>
    /\ sql_query = <<>>
    /\ query_results = <<>>
    /\ analysis = <<>>
    /\ final_response = <<>>
    /\ node = "classify_query"

\* What a stage was given from outside the run: the model's reply, the rows
\* of the query, or the exception of the model call.
Given(stage, reply, rows, raised) ==
    [stage |-> stage, reply |-> reply, rows |-> rows, raised |-> raised]

Called(stage, reply) ==
    [run EXCEPT !.path = Append(@, stage), !.reply = reply,
                !.calls[stage] = @ + 1,
                !.log = Append(@, Given(stage, reply, <<>>, FALSE))]

classify_query ==
    /\ node = "classify_query"
    /\ \E reply \in ClassificationReplies :
          /\ query_type' = Classification(reply)
          /\ run' = Called("classify_query", reply)
    /\ messages' = AddReducer(messages, messages)
    /\ node' = RouteAfterClassification(query_type')
    /\ UNCHANGED <<sql_query, query_results, analysis, final_response>>
    /\ UNCHANGED <<syncVars, extraVars>>

analyze_transactions ==
    /\ node = "analyze_transactions"
    /\ \E reply \in SqlReplies :
          /\ sql_query' = CleanSql(reply)
          /\ \E done \in Execution(sql_query', transactions) :
                /\ query_results' = ExecuteSqlQuery(done)
                /\ transactions' = done.store
                /\ run' = [Called("analyze_transactions", reply) EXCEPT
                              !.exec = IF done.raised THEN "raised" ELSE "rows",
                              !.log[Len(run.log) + 1].rows = ExecuteSqlQuery(done)]
    /\ messages' = AddReducer(messages, messages)
    /\ node' = "generate_insights"
    /\ UNCHANGED <<query_type, analysis, final_response>>
    /\ UNCHANGED <<feed, accounts, plaid_item, session, pc, cursor, has_more,
                   sync_response, sync_summary, now, hist>>
    /\ UNCHANGED extraVars

generate_insights ==
    /\ node = "generate_insights"
    /\ IF NoUsableRows(query_results)
       THEN /\ analysis' = Apology
            /\ run' = [run EXCEPT !.path = Append(@, "generate_insights"),
                                  !.reply = <<>>,
                                  !.log = Append(@, Given("generate_insights",
                                                          <<>>, <<>>, FALSE))]
       ELSE \E reply \in AnalysisReplies :
               /\ analysis' = reply
               /\ run' = Called("generate_insights", reply)
    /\ messages' = AddReducer(messages, messages)
    /\ node' = "format_response"
    /\ UNCHANGED <<query_type, sql_query, query_results, final_response>>
    /\ UNCHANGED <<syncVars, extraVars>>

general_chat ==
    /\ node = "general_chat"
    /\ \E reply \in ChatReplies :
          /\ final_response' = reply
          /\ run' = [Called("general_chat", reply) EXCEPT
                        !.prompt = <<SystemPrompt>> \o messages,
                        !.chat = reply,
                        !.writers = Append(@, "general_chat")]
    /\ messages' = AddReducer(messages, messages)
    /\ node' = "format_response"
    /\ UNCHANGED <<query_type, sql_query, query_results, analysis>>
    /\ UNCHANGED <<syncVars, extraVars>>

format_response ==
    /\ node = "format_response"
    /\ final_response' =
          FormattedResponse(final_response, query_type, analysis, query_results)
    /\ messages' = AddReducer(messages, messages)
    /\ node' = "END"
    /\ run' = [run EXCEPT !.path = Append(@, "format_response"), !.reply = <<>>,
                          !.log = Append(@, Given("format_response", <<>>, <<>>, FALSE)),
                          !.writers = IF FormatAssigns(final_response, query_type)
                                      THEN Append(@, "format_response") ELSE @,
                          !.before = <<[messages |-> messages,
                                        query_type |-> query_type,
                                        sql_query |-> sql_query,
                                        query_results |-> query_results,
                                        analysis |-> analysis,
                                        final_response |-> final_response]>>]
    /\ UNCHANGED <<query_type, sql_query, query_results, analysis>>
    /\ UNCHANGED <<syncVars, extraVars>>

\* A stage that is run again when its model call raised.
AfterModelErrorRetrying(stage) == stage

\* No stage catches what llm.invoke raises: the run is over.
AfterModelError(stage) == "raised"

\* llm.invoke raises: the exception leaves the graph and process_query.
ModelCallRaises ==
    /\ \/ node \in {"classify_query", "analyze_transactions", "general_chat"}
       \/ node = "generate_insights" /\ ~NoUsableRows(query_results)
    /\ run' = [run EXCEPT !.path = Append(@, node), !.reply = <<>>,
                          !.calls[node] = @ + 1,
                          !.log = Append(@, Given(node, <<>>, <<>>, TRUE))]
    /\ node' = AfterModelError(node)
    /\ UNCHANGED <<messages, query_type, sql_query, query_results, analysis,
                   final_response>>
    /\ UNCHANGED <<syncVars, extraVars>>

AgentNext ==
    \/ classify_query
    \/ analyze_transactions
    \/ generate_insights
    \/ general_chat
    \/ format_response
    \/ ModelCallRaises

(***************************************************************************)
(* calculate_summary.  A row's category is a list of labels, the JSON text *)
(* of such a list (what a raw query returns for the JSON column) or None.  *)
(***************************************************************************)
MaxData == 3         \* rows in the data of one call

CategoryList(items) == [kind |-> "list", items |-> items]
CategoryText(text) == [kind |-> "str", text |-> text]
CategoryNone == [kind |-> "none"]

Day(y, m, d) == [year |-> y, month |-> m, day |-> d]

SummaryRows ==
    { [category |-> CategoryList(<<"Food">>), date |-> Day(2024, 1, 5), amount |-> 1000],
      [category |-> CategoryList(<<"Food", "Coffee">>), date |-> Day(2024, 1, 20),
       amount |-> 2000],
      [category |-> CategoryList(<<"Gas">>), date |-> Day(2024, 2, 1), amount |-> 500],
      [category |-> CategoryText(<<"[", "Food", ",", "Food", "]">>),
       date |-> Day(2024, 2, 1), amount |-> -1250],
      [category |-> CategoryList(<<>>), date |-> Day(2023, 12, 31), amount |-> 0],
      [category |-> CategoryNone, date |-> Day(2024, 1, 5), amount |-> -300] }

SummaryData ==
    SeqsUpTo(SummaryRows, MaxData) \cup { <<ErrorMarker>> }

SummaryTypes == { "category breakdown", "monthly_trend", "category_breakdown" }

\* The number of elements of s equal to x.
Occurrences(s, x) == Cardinality({ i \in DOMAIN s : s[i] = x })

RECURSIVE Select(_, _)
Select(s, keep) ==
    IF s = <<>> THEN <<>>
    ELSE (IF Head(s) \in keep THEN <<Head(s)>> ELSE <<>>) \o Select(Tail(s), keep)

\* json.loads of the text of a list of strings, or of null.
JsonLoads(text) ==
    IF text = <<"null">> THEN CategoryNone
    ELSE CategoryList(Select(text, Range(text) \ {"[", ",", "]"}))

\* Lines 135-140: the labels one row adds to the list.
Extended(categories, cats) ==
    LET value == IF cats.kind = "str" THEN JsonLoads(cats.text) ELSE cats
    IN  IF value.kind = "list" /\ value.items /= <<>>
        THEN categories \o value.items
        ELSE categories

RECURSIVE Categories(_, _)
Categories(categories, rows) ==
    IF rows = <<>> THEN categories
    ELSE Categories(Extended(categories, Head(rows).category), Tail(rows))

\* A count that notes each label once.
ValueCountsDistinct(labels) == [l \in Range(labels) |-> 1]

\* pd.Series(categories).value_counts().to_dict()
ValueCounts(labels) == [l \in Range(labels) |-> Occurrences(labels, l)]

\* dt.to_period('M') and str(): the month 'YYYY-MM' of a date.
Month(d) == [year |-> d.year, month |-> d.month]

RECURSIVE SumOfMonth(_, _)
SumOfMonth(rows, m) ==
    IF rows = <<>> THEN 0
    ELSE (IF Month(Head(rows).date) = m THEN Head(rows).amount ELSE 0)
         + SumOfMonth(Tail(rows), m)

\* A trend that adds up the sizes of the amounts.
MonthlyAbsolute(rows) ==
    [m \in { Month(rows[i].date) : i \in DOMAIN rows } |->
        SumOfMonth([i \in DOMAIN rows |->
                      [rows[i] EXCEPT !.amount = Abs(@)]], m)]

\* Lines 148-152: groupby('month')['amount'].sum().to_dict()
Monthly(rows) ==
    [m \in { Month(rows[i].date) : i \in DOMAIN rows } |-> SumOfMonth(rows, m)]

\* calculate_summary (lines 123-155)
CalculateSummary(rows, type) ==
    IF NoUsableRows(rows) THEN [error |-> "No valid data to summarize"]
    ELSE IF type = "category breakdown"
    THEN IF \E i \in DOMAIN rows : "category" \in DOMAIN rows[i]
         THEN [category_breakdown |-> ValueCounts(Categories(<<>>, rows))]
         ELSE [error |-> "Unknown summary type"]
    ELSE IF type = "monthly_trend"
    THEN [monthly_trend |-> Monthly(rows)]
    ELSE [error |-> "Unknown summary type"]

NotCalled == [pending |-> TRUE]

ToolIdle ==
    /\ data = <<>>
    /\ summary_type = ""
    /\ summary = NotCalled

\* The tool is called with its two arguments.
calculate_summary ==
    /\ summary = NotCalled
    /\ summary' = CalculateSummary(data, summary_type)
    /\ UNCHANGED <<data, summary_type>>
    /\ UNCHANGED <<syncVars, agentVars, route, other>>

(***************************************************************************)
(* The sync-transactions operation (api/plaid_routes.py): every connection *)
(* of the user is synced in turn through the request's one session and the *)
(* summaries are added up.                                                 *)
(***************************************************************************)
NoRoute ==
    [pc |-> "none", i |-> 0, items |-> <<>>, feeds |-> <<>>,
     total_summary |-> NewSummary, returned |-> <<>>, response |-> <<>>]

RouteIdle == route = NoRoute /\ other = <<>>

\* The rows of table plaid_items: two connections of the demo user.
PlaidItems ==
    << [id |-> 1, user_id |-> 1, cursor |-> None, last_sync |-> None],
       [id |-> 2, user_id |-> 1, cursor |-> None, last_sync |-> None] >>

ItemRecord(item_id, p) ==
    [transaction_id |-> TxnIdOf(item_id), account_id |-> AccountIdOf(item_id)] @@ p

FeedPage(a, m, r, more) ==
    [added |-> a, modified |-> m, removed |-> r, has_more |-> more]

\* Change feeds the provider may hold for a connection.
FeedsOf(item_id) ==
    UNION { { << FeedPage(<<ItemRecord(item_id, p)>>, <<>>, <<>>, FALSE) >>,
              << FeedPage(<<ItemRecord(item_id, p), ItemRecord(item_id, p)>>,
                          <<>>, <<>>, FALSE) >>,
              << FeedPage(<<ItemRecord(item_id, p)>>, <<>>, <<>>, TRUE),
                 FeedPage(<<>>, <<ItemRecord(item_id, p)>>, <<>>, FALSE) >> } :
            p \in Payloads }

\* The accounts the connections got when they were linked.
LinkedAccounts ==
    { [id |-> k, plaid_item_id |-> k, account_id |-> AccountIdOf(k),
       attrs |-> AccountAttrs(AccountData(100))] : k \in {1, 2} }

\* total_summary without the counts of a connection that failed.
AddSummarySkippingFailed(total, s) ==
    IF s.errors = <<>>
    THEN [added |-> total.added + s.added,
          modified |-> total.modified + s.modified,
          removed |-> total.removed + s.removed,
          errors |-> total.errors]
    ELSE [total EXCEPT !.errors = @ \o s.errors]

\* Lines 104-107: one summary is added to total_summary.
AddSummary(total, s) ==
    [added |-> total.added + s.added,
     modified |-> total.modified + s.modified,
     removed |-> total.removed + s.removed,
     errors |-> total.errors \o s.errors]

\* Lines 109-112: the response of the operation.
SyncResponse(total) ==
    [success |-> Len(total.errors) = 0,
     added |-> total.added, modified |-> total.modified,
     removed |-> total.removed, errors |-> total.errors]

RowsOfItem(item_id) ==
    { t \in transactions :
        \E a \in accounts : a.id = t.account_id /\ a.plaid_item_id = item_id }

\* Lines 85-100: the connections are loaded, total_summary is zero.
RouteBegin ==
    /\ route.pc = "start"
    /\ route' = [route EXCEPT !.pc = "loop", !.total_summary = NewSummary]
    /\ UNCHANGED <<syncVars, agentVars, toolVars, other>>

\* Line 102: the loop takes the next connection.
RouteNextItem ==
    /\ route.pc = "loop"
    /\ route.i < Len(route.items)
    /\ plaid_item' = route.items[route.i + 1]
    /\ feed' = route.feeds[route.i + 1]
    /\ pc' = "idle"
    /\ route' = [route EXCEPT !.pc = "in_item", !.i = @ + 1]
    /\ UNCHANGED <<accounts, transactions, session, cursor, has_more,
                   sync_response, sync_summary, now, hist>>
    /\ UNCHANGED <<agentVars, toolVars, other>>

\* Line 103: sync_item is called for it.
RouteSyncItem ==
    /\ route.pc = "in_item"
    /\ pc = "idle"
    /\ StartSync

\* Lines 104-107: sync_item has returned, its summary is added.
RouteCollect ==
    /\ route.pc = "in_item"
    /\ pc = "returned"
    /\ route' = [route EXCEPT
                    !.pc = "loop",
                    !.items[route.i] = plaid_item,
                    !.feeds[route.i] = feed,
                    !.total_summary = AddSummary(@, sync_summary),
                    !.returned = Append(@, [summary |-> sync_summary,
                                            done |-> hist.done,
                                            rows |-> RowsOfItem(plaid_item.id)])]
    /\ UNCHANGED <<syncVars, agentVars, toolVars, other>>

\* Lines 109-112: the loop is over, the response is returned.
RouteReturn ==
    /\ route.pc = "loop"
    /\ route.i = Len(route.items)
    /\ route' = [route EXCEPT !.pc = "done",
                              !.response = <<SyncResponse(route.total_summary)>>]
    /\ UNCHANGED <<syncVars, agentVars, toolVars, other>>

RouteNext ==
    \/ RouteBegin
    \/ RouteNextItem
    \/ RouteSyncItem
    \/ RefreshAccounts
    \/ FetchPage
    \/ ProviderFails
    \/ ApplyPage
    \/ CommitPage
    \/ CommitPageFails
    \/ PersistCursor
    \/ PersistCursorFails
    \/ RouteCollect
    \/ RouteReturn

\* Rows a sync of the first connection has stored.
StoredAccounts ==
    { [id |-> 1, plaid_item_id |-> 1, account_id |-> "acc1",
       attrs |-> AccountAttrs(AccountData(100))] }

StoredTransactions ==
    { [id |-> 1, user_id |-> 1, plaid_transaction_id |-> "t1", account_id |-> 1,
       amount |-> 1250,
       date |-> Strptime([year |-> 2024, month |-> 1, day |-> 5]),
       name |-> "Coffee Shop", category |-> <<"Food and Drink", "Coffee">>] }

(***************************************************************************)
(* Two sync_item invocations for the same connection in two requests, each *)
(* with a session and locals of its own, over the one store.  The          *)
(* invocation that is not running is parked in 'other'; Switch hands the   *)
(* processor to it, at any point between two steps.                        *)
(***************************************************************************)
InFlight == {"accounts", "fetch", "apply", "commit", "persist"}

Context ==
    [session |-> session, pc |-> pc, cursor |-> cursor, has_more |-> has_more,
     sync_response |-> sync_response, sync_summary |-> sync_summary,
     hist |-> hist]

Switch ==
    /\ other /= <<>>
    /\ other[1].ctx.pc /= "returned"
    /\ session' = other[1].ctx.session
    /\ pc' = other[1].ctx.pc
    /\ cursor' = other[1].ctx.cursor
    /\ has_more' = other[1].ctx.has_more
    /\ sync_response' = other[1].ctx.sync_response
    /\ sync_summary' = other[1].ctx.sync_summary
    /\ hist' = other[1].ctx.hist
    /\ other' = <<[ctx |-> Context,
                   overlapped |-> \/ other[1].overlapped
                                  \/ pc \in InFlight /\ other[1].ctx.pc \in InFlight]>>
    /\ UNCHANGED <<feed, accounts, transactions, plaid_item, now>>
    /\ UNCHANGED <<agentVars, toolVars, route>>

\* A request calls sync_item.
OverlapStart ==
    /\ other /= <<>>
    /\ pc = "idle"
    /\ StartSync

OverlapNext ==
    \/ OverlapStart
    \/ Switch
    \/ RefreshAccounts
    \/ FetchPage
    \/ ProviderFails
    \/ ApplyPage
    \/ CommitPage
    \/ CommitPageFails
    \/ PersistCursor
    \/ PersistCursorFails

\* Change feeds of the connection whose account is stored.
OverlapFeeds ==
    UNION { { << FeedPage(<<TxnData("t1", p)>>, <<>>, <<>>, FALSE) >>,
              << FeedPage(<<TxnData("t1", p)>>, <<>>, <<>>, TRUE),
                 FeedPage(<<TxnData("t2", p)>>, <<>>, <<>>, FALSE) >>,
              << FeedPage(<<>>, <<>>, <<>>, FALSE) >> } :
            p \in Payloads }

(***************************************************************************)
(* Two process_query runs in two requests.  Each run's AgentState is the   *)
(* dictionary process_query builds and hands to the graph; the run that is *)
(* suspended at a model call or a store call is parked in 'other', and     *)
(* SwitchRun resumes it.  The store is the one both runs query.            *)
(***************************************************************************)
AgentContext ==
    [messages |-> messages, query_type |-> query_type, sql_query |-> sql_query,
     query_results |-> query_results, analysis |-> analysis,
     final_response |-> final_response, node |-> node, run |-> run]

\* A pipeline that keeps query_results in one place for all runs.
ResumedSharingResults(ctx, current) ==
    [ctx EXCEPT !.query_results = current.query_results]

\* The state a resumed run goes on with: its own, as it was suspended;
\* nothing of it is kept outside the invocation.
Resumed(ctx, current) == ctx

InProgress(n) == n \notin {"idle", "END", "raised"}

SwitchRun ==
    /\ other /= <<>>
    /\ InProgress(other[1].ctx.node)
    /\ LET state == Resumed(other[1].ctx, AgentContext)
       IN  /\ messages' = state.messages
           /\ query_type' = state.query_type
           /\ sql_query' = state.sql_query
           /\ query_results' = state.query_results
           /\ analysis' = state.analysis
           /\ final_response' = state.final_response
           /\ node' = state.node
           /\ run' = state.run
    /\ other' = <<[ctx |-> AgentContext,
                   overlapped |-> \/ other[1].overlapped
                                  \/ InProgress(node) /\ run.path /= <<>>]>>
    /\ UNCHANGED <<syncVars, toolVars, route>>

\* The replies and rows the two runs are given.
ConcurrentReplies ==
    { Transaction, General, <<" ", "S", "U", "M", "M", "A", "R", "Y", "\n">>,
      <<"o", "t", "h", "e", "r">>,
      <<"SELECT", " name FROM transactions">>,
      <<FenceSql, "\n", "SELECT", " name FROM transactions", "\n", Fence>>,
      <<"DROP", " TABLE transactions">> }
    \cup ChatReplies \cup AnalysisReplies

ConcurrentRows ==
    { <<>>, <<ErrorMarker>>, <<Spent>>, <<Spent, Received>>,
      [i \in 1..MaxRows |-> Aggregate] }

ConcurrentGiven ==
    \A i \in DOMAIN run.log :
        /\ run.log[i].reply \in ConcurrentReplies
        /\ run.log[i].rows \in ConcurrentRows

\* A stage of the run that has the processor.
ConcurrentStage ==
    /\ other /= <<>>
    /\ AgentNext
    /\ ConcurrentGiven'

ConcurrentNext ==
    \/ ConcurrentStage
    \/ SwitchRun

vars == <<syncVars, agentVars, extraVars>>

Init == SyncInit /\ AgentIdle /\ ToolIdle /\ RouteIdle

\* One sync-transactions request over two connections that were linked
\* and never synced to the end.
RouteInit ==
    /\ feed = <<>>
    /\ \/ accounts = {}
       \/ accounts = LinkedAccounts
    /\ transactions = {}
    /\ plaid_item = PlaidItems[1]
    /\ session = EmptySession
    /\ pc = "idle"
    /\ cursor = None
    /\ has_more = FALSE
    /\ sync_response = NoResponse
    /\ sync_summary = NewSummary
    /\ now = 0
    /\ hist = [start |-> [cursor |-> None, last_sync |-> None],
               durable |-> [accounts |-> accounts, transactions |-> {}],
               committed |-> {}, page |-> 0, done |-> 0, redo |-> FALSE,
               before |-> {}, queued |-> <<>>, asked |-> <<>>, got |-> <<>>,
               requests |-> 0, accs |-> <<>>, prior |-> {},
               outcome |-> "none"]
    /\ AgentIdle
    /\ ToolIdle
    /\ other = <<>>
    /\ \E f1 \in FeedsOf(1), f2 \in FeedsOf(2) :
          route = [NoRoute EXCEPT !.pc = "start", !.items = PlaidItems,
                                  !.feeds = <<f1, f2>>]

RouteSpec == RouteInit /\ [][RouteNext]_vars

\* Two requests sync the one connection, whose account is stored.
OverlapInit ==
    /\ feed \in OverlapFeeds
    /\ accounts = StoredAccounts
    /\ transactions = {}
    /\ plaid_item = PlaidItems[1]
    /\ session = EmptySession
    /\ pc = "idle"
    /\ cursor = None
    /\ has_more = FALSE
    /\ sync_response = NoResponse
    /\ sync_summary = NewSummary
    /\ now = 0
    /\ hist = [start |-> [cursor |-> None, last_sync |-> None],
               durable |-> [accounts |-> accounts, transactions |-> {}],
               committed |-> {}, page |-> 0, done |-> 0, redo |-> FALSE,
               before |-> {}, queued |-> <<>>, asked |-> <<>>, got |-> <<>>,
               requests |-> 0, accs |-> <<>>, prior |-> {},
               outcome |-> "none"]
    /\ AgentIdle
    /\ ToolIdle
    /\ route = NoRoute
    /\ other = <<[ctx |-> Context, overlapped |-> FALSE]>>

OverlapSpec == OverlapInit /\ [][OverlapNext]_vars

\* One call of calculate_summary.
SummaryInit ==
    /\ SyncInit
    /\ AgentIdle
    /\ data \in SummaryData
    /\ summary_type \in SummaryTypes
    /\ summary = NotCalled
    /\ RouteIdle

SummarySpec == SummaryInit /\ [][calculate_summary]_vars

Next == SyncNext

\* The synchronisation of one connection.
Spec == Init /\ [][Next]_vars

\* The steps of an invocation that has not returned.
Running ==
    \/ RefreshAccounts
    \/ FetchPage
    \/ ProviderFails
    \/ ApplyPage
    \/ CommitPage
    \/ CommitPageFails
    \/ PersistCursor
    \/ PersistCursorFails

TerminationNext ==
    \/ StartSync
    \/ Running

\* A connection whose feed holds one or two pages; its account is stored or
\* not yet.
TerminationInit ==
    /\ feed \in OverlapFeeds
    /\ \/ accounts = {}
       \/ accounts = StoredAccounts
    /\ transactions = {}
    /\ plaid_item = PlaidItems[1]
    /\ session = EmptySession
    /\ pc = "idle"
    /\ cursor = None
    /\ has_more = FALSE
    /\ sync_response = NoResponse
    /\ sync_summary = NewSummary
    /\ now = 0
    /\ hist = [start |-> [cursor |-> None, last_sync |-> None],
               durable |-> [accounts |-> accounts, transactions |-> {}],
               committed |-> {}, page |-> 0, done |-> 0, redo |-> FALSE,
               before |-> {}, queued |-> <<>>, asked |-> <<>>, got |-> <<>>,
               requests |-> 0, accs |-> <<>>, prior |-> {},
               outcome |-> "none"]
    /\ AgentIdle
    /\ ToolIdle
    /\ RouteIdle

\* sync_item is sequential code: while it has not returned, and every call
\* it makes returns or raises, its next step is taken.
TerminationSpec ==
    TerminationInit /\ [][TerminationNext]_vars /\ WF_vars(Running)

\* One run of the pipeline.
\* The store the pipeline reads: as linked, or after a sync stored a row.
AgentRunInit ==
    /\ feed = <<>>
    /\ \/ accounts = {} /\ transactions = {}
       \/ accounts = StoredAccounts /\ transactions = StoredTransactions
    /\ plaid_item = [id |-> 1, user_id |-> 1, cursor |-> None, last_sync |-> None]
    /\ session = EmptySession
    /\ pc = "idle"
    /\ cursor = None
    /\ has_more = FALSE
    /\ sync_response = NoResponse
    /\ sync_summary = NewSummary
    /\ now = 0
    /\ hist = [start |-> [cursor |-> None, last_sync |-> None],
               durable |-> [accounts |-> accounts, transactions |-> transactions],
               committed |-> {}, page |-> 0, done |-> 0, redo |-> FALSE,
               before |-> {}, queued |-> <<>>, asked |-> <<>>, got |-> <<>>,
               requests |-> 0, accs |-> <<>>, prior |-> {},
               outcome |-> "none"]
    /\ AgentInit
    /\ ToolIdle
    /\ RouteIdle

AgentSpec == AgentRunInit /\ [][AgentNext]_vars

\* Two runs over the store a sync has filled: one has the processor, the
\* other waits at its first stage.
ConcurrentInit ==
    /\ feed = <<>>
    /\ accounts = StoredAccounts
    /\ transactions = StoredTransactions
    /\ plaid_item = [id |-> 1, user_id |-> 1, cursor |-> None, last_sync |-> None]
    /\ session = EmptySession
    /\ pc = "idle"
    /\ cursor = None
    /\ has_more = FALSE
    /\ sync_response = NoResponse
    /\ sync_summary = NewSummary
    /\ now = 0
    /\ hist = [start |-> [cursor |-> None, last_sync |-> None],
               durable |-> [accounts |-> accounts, transactions |-> transactions],
               committed |-> {}, page |-> 0, done |-> 0, redo |-> FALSE,
               before |-> {}, queued |-> <<>>, asked |-> <<>>, got |-> <<>>,
               requests |-> 0, accs |-> <<>>, prior |-> {},
               outcome |-> "none"]
    /\ \E h \in Histories, q \in UserQueries :
          /\ messages = BuildMessages(h, q)
          /\ run = [NewRun EXCEPT !.history = BuildMessages(h, q),
                                  !.store = transactions]
          /\ \E q2 \in UserQueries \ {q} :
                other = <<[ctx |-> [messages |-> BuildMessages(<<>>, q2),
                                    query_type |-> <<>>, sql_query |-> <<>>,
                                    query_results |-> <<>>, analysis |-> <<>>,
                                    final_response |-> <<>>,
                                    node |-> "classify_query",
                                    run |-> [NewRun EXCEPT
                                               !.history = BuildMessages(<<>>, q2),
                                               !.store = transactions]],
                           overlapped |-> FALSE]>>
    /\ query_type = <<>>
    /\ sql_query = <<>>
    /\ query_results = <<>>
    /\ analysis = <<>>
    /\ final_response = <<>>
    /\ node = "classify_query"
    /\ ToolIdle
    /\ route = NoRoute

ConcurrentSpec == ConcurrentInit /\ [][ConcurrentNext]_vars

\* The two operations of the core: a request runs the pipeline, or it
\* syncs the connection.
PipelineRequest == node /= "idle" /\ AgentNext

SyncRequest == node = "idle" /\ TerminationNext

CoreNext ==
    \/ PipelineRequest
    \/ SyncRequest

CoreInit ==
    \/ AgentRunInit
    \/ TerminationInit

CoreSpec == CoreInit /\ [][CoreNext]_vars

(***************************************************************************)
(* Properties of the synchronisation.                                      *)
(***************************************************************************)
StoredIds(rows) == { t.plaid_transaction_id : t \in rows }

RowsOf(rows, id) == { t \in rows : t.plaid_transaction_id = id }

Failed == pc = "returned" /\ sync_summary.errors /= <<>>

\* C1: when a provider call or the application or commit of a page raises,
\* sync_item returns a summary holding the error text, nothing of the failed
\* page is in the store or left pending, the pages committed before it stay,
\* and the persisted cursor and last_sync are those of before the invocation.
C1_FailureKeepsCommittedPagesAndCursor ==
    Failed =>
        /\ Len(sync_summary.errors) = 1
        /\ session = EmptySession
        /\ accounts = hist.durable.accounts
        /\ transactions = hist.durable.transactions
        /\ plaid_item.cursor = hist.start.cursor
        /\ plaid_item.last_sync = hist.start.last_sync

\* A second page failed at its commit after the first page was committed
\* with a row.
C1_Witness ==
    /\ Failed
    /\ hist.outcome = "IntegrityError"
    /\ hist.done = 1
    /\ hist.page = 2
    /\ transactions /= {}
    /\ Len(sync_response.added) > 0

\* The records of the page's added list that the add loop queued a second
\* time: the id is already stored, or queued earlier on the same page.
AppliedAgain(i) ==
    \/ hist.queued[i].plaid_transaction_id \in StoredIds(hist.before)
    \/ \E j \in 1..(i - 1) :
          hist.queued[j].plaid_transaction_id = hist.queued[i].plaid_transaction_id

LastQueued(id) ==
    hist.queued[Max({ i \in DOMAIN hist.queued :
                        hist.queued[i].plaid_transaction_id = id })]

SameFields(t, q) ==
    /\ t.amount = q.amount
    /\ t.date = q.date
    /\ t.name = q.name
    /\ t.category = q.category

RemovedIds(resp) == { resp.removed[i].transaction_id : i \in DOMAIN resp.removed }

\* The commit of the page was attempted and the store itself did not fail.
Decided == hist.outcome \in {"ok", "IntegrityError"}

\* C2: an 'added' record of a known account that is applied a second time
\* (same provider transaction id) does not fail the sync and leaves exactly
\* one stored row with that id, carrying the values of the latest application.
C2_AddedTwiceLeavesOneLatestRow ==
    \A i \in DOMAIN hist.queued :
        (Decided /\ AppliedAgain(i)
           /\ hist.queued[i].plaid_transaction_id \notin RemovedIds(sync_response)) =>
            /\ hist.outcome = "ok"
            /\ Cardinality(RowsOf(transactions, hist.queued[i].plaid_transaction_id)) = 1
            /\ \A t \in RowsOf(transactions, hist.queued[i].plaid_transaction_id) :
                  SameFields(t, LastQueued(hist.queued[i].plaid_transaction_id))

\* C3: a page that was committed before the cursor was persisted is fetched
\* again by the next sync_item; its commit completes, and every record it
\* adds has exactly one row, as after a single application.
C3_ReprocessedPageCompletes ==
    (Decided /\ hist.redo /\ ~DuplicateTransactions(hist.queued)) =>
        /\ hist.outcome = "ok"
        /\ \A id \in StoredIds(transactions) :
              Cardinality(RowsOf(transactions, id)) = 1
        /\ \A i \in DOMAIN hist.queued :
              hist.queued[i].plaid_transaction_id \notin RemovedIds(sync_response) =>
                 \E t \in transactions :
                    /\ t.plaid_transaction_id = hist.queued[i].plaid_transaction_id
                    /\ SameFields(t, LastQueued(t.plaid_transaction_id))

\* C4: the persisted cursor never denotes a position beyond the last
\* committed page: when it is the continuation token of page k, the pages
\* 1..k have been committed.
C4_CursorNotBeyondCommittedPages ==
    \A k \in 1..MaxPages :
        plaid_item.cursor = Some(k) => (1..k) \subseteq hist.committed

\* The cursor of the second page is persisted after an interrupted sync.
C4_Witness ==
    /\ plaid_item.cursor = Some(2)
    /\ now >= 2
    /\ pc = "returned"

\* sync_item has returned and no step of it failed.
Completed ==
    /\ pc = "returned"
    /\ sync_summary.errors = <<>>
    /\ hist.asked /= <<>>

\* C15: when sync_item returns and no step failed, the persisted cursor is
\* the next_cursor of the last page fetched, which is the first page with
\* has_more = false, last_sync is set, no error is listed, every fetched
\* page was committed, and the requests carried the persisted cursor first
\* and then the next_cursor of the page before.
C15_CompletedSyncPersistsLastCursor ==
    Completed =>
        LET n == Len(hist.asked)
        IN  /\ Len(hist.got) = n
            /\ plaid_item.cursor = hist.got[n].next_cursor
            /\ ~hist.got[n].has_more
            /\ \A i \in 1..(n - 1) : hist.got[i].has_more
            /\ plaid_item.last_sync = Some(now)
            /\ hist.done = n
            /\ hist.asked[1] = hist.start.cursor
            /\ \A i \in 2..n : hist.asked[i] = hist.got[i - 1].next_cursor

\* A sync of two pages has returned with the cursor of the second.
C15_Witness ==
    /\ Completed
    /\ Len(hist.asked) = 2
    /\ hist.start.cursor = None
    /\ plaid_item.cursor = Some(2)

\* C5: when a stored transaction X is listed in the removed list of a later
\* page, no row with id X is in the store once that page is committed.
C5_AddedThenRemovedIsAbsent ==
    \A id \in TxnIds :
        (hist.outcome = "ok" /\ id \in StoredIds(hist.before)
           /\ id \in RemovedIds(sync_response)) =>
            RowsOf(transactions, id) = {}

\* A page removing a stored row has been committed.
C5_Witness ==
    /\ hist.outcome = "ok"
    /\ \E id \in TxnIds : /\ id \in StoredIds(hist.before)
                          /\ id \in RemovedIds(sync_response)
    /\ transactions /= {}

(***************************************************************************)
(* Properties of the pipeline.                                             *)
(***************************************************************************)
Ran(stage) == stage \in Range(run.path)

Terminal == node = "END"

\* C6 as stated: every terminal state has a non-empty final_response.
C6_TerminalResponseNonEmpty == Terminal => final_response /= <<>>

\* C6, amended: in every terminal state final_response has been assigned:
\* on the analyze branch it is a non-empty text, on the general branch it is
\* the raw reply of general_chat, empty when that reply is empty.
C6_TerminalResponseAssigned ==
    Terminal =>
        /\ Ran("analyze_transactions") => final_response /= <<>>
        /\ Ran("general_chat") => final_response = run.chat
        /\ Ran("analyze_transactions") \/ Ran("general_chat")

\* A general run whose reply was empty has ended.
C6_Witness ==
    /\ Terminal
    /\ Ran("general_chat")
    /\ run.chat = <<>>
    /\ final_response = <<>>

AnalyzePath ==
    <<"classify_query", "analyze_transactions", "generate_insights", "format_response">>

GeneralPath == <<"classify_query", "general_chat", "format_response">>

IsPrefix(p, q) == Len(p) <= Len(q) /\ SubSeq(q, 1, Len(p)) = p

\* C7: a run executes classify_query, analyze_transactions, generate_insights,
\* format_response when query_type is transaction or summary, and
\* classify_query, general_chat, format_response when it is general; the
\* stage that runs next is the next one of that sequence, and format_response
\* is the last.
C7_OneOfTwoStageSequences ==
    run.path /= <<>> =>
        LET expected == IF query_type \in {Transaction, Summary}
                        THEN AnalyzePath ELSE GeneralPath
        IN  /\ IsPrefix(run.path, expected)
            /\ Terminal => run.path = expected
            /\ node \notin {"END", "raised"} => node = expected[Len(run.path) + 1]

\* A summary run has ended after the four stages of the analyze path.
C7_Witness ==
    /\ Terminal
    /\ query_type = Summary
    /\ run.path = AnalyzePath

\* t is s without its leading and trailing whitespace.
IsTrimOf(t, s) ==
    \E i \in 1..(Len(s) + 1), j \in 0..Len(s) :
        /\ t = SubSeq(s, i, j)
        /\ \A k \in 1..(i - 1) : s[k] \in Whitespace
        /\ \A k \in (j + 1)..Len(s) : s[k] \in Whitespace
        /\ IF t = <<>> THEN TRUE
           ELSE t[1] \notin Whitespace /\ t[Len(t)] \notin Whitespace

\* u is t with every upper-case letter replaced by its lower-case letter.
IsLowerOf(u, t) ==
    /\ Len(u) = Len(t)
    /\ \A k \in DOMAIN t :
          IF \E i \in DOMAIN UpperCase : t[k] = UpperCase[i]
          THEN \E i \in DOMAIN UpperCase : t[k] = UpperCase[i] /\ u[k] = LowerCase[i]
          ELSE u[k] = t[k]

JustClassified == run.path = <<"classify_query">> /\ node /= "raised"

\* The ways to trim s (there is exactly one).
TrimsOf(s) ==
    {t \in {SubSeq(s, i, j) : i \in 1..(Len(s) + 1), j \in 0..Len(s)} :
        IsTrimOf(t, s)}

\* C8: after classify_query, query_type is the trimmed, lower-cased reply
\* when that is one of the three labels and general otherwise; it is never
\* outside the three labels.
C8_ClassificationCoercedToLabel ==
    /\ JustClassified =>
          LET named == {l \in Labels : \E t \in TrimsOf(run.reply) : IsLowerOf(l, t)}
          IN  IF named = {} THEN query_type = General ELSE query_type \in named
    /\ (run.path /= <<>> /\ (node /= "raised" \/ Len(run.path) > 1)) =>
          query_type \in Labels

\* A padded upper-case reply was classified summary.
C8_Witness ==
    /\ JustClassified
    /\ run.reply = <<" ", "S", "U", "M", "M", "A", "R", "Y", "\n">>
    /\ query_type = Summary

\* C9: on the general branch final_response is the raw reply of general_chat
\* to the system message followed by the message history, and
\* format_response leaves every field of the state as it was.
C9_GeneralBranchPassesThrough ==
    (Terminal /\ Ran("general_chat")) =>
        /\ final_response = run.chat
        /\ run.prompt = <<SystemPrompt>> \o run.history
        /\ run.before = <<[messages |-> messages,
                           query_type |-> query_type,
                           sql_query |-> sql_query,
                           query_results |-> query_results,
                           analysis |-> analysis,
                           final_response |-> final_response]>>

\* C10: on the analyze branch, when query_results is empty or begins with an
\* error marker, generate_insights calls no model, analysis is the apology
\* and final_response is exactly the apology.
C10_NoUsableRowsGivesApology ==
    (Terminal /\ Ran("analyze_transactions")
       /\ (IF query_results = <<>> THEN TRUE
           ELSE "error" \in DOMAIN query_results[1])) =>
        /\ run.calls.generate_insights = 0
        /\ analysis = Apology
        /\ final_response = Apology

\* A run whose query failed has ended.
C10_Witness ==
    /\ Terminal
    /\ query_results = <<ErrorMarker>>
    /\ final_response = Apology

\* An analyze run has ended on a result set whose first row is a data row.
FormattedData ==
    /\ Terminal
    /\ Ran("analyze_transactions")
    /\ query_results /= <<>>
    /\ "error" \notin DOMAIN query_results[1]

\* The number of elements of s equal to piece.
Count(s, piece) == Cardinality({ i \in DOMAIN s : s[i] = piece })

LineStart == "- "
NoteStart == "\n(Showing analysis of "

\* The rows the listing can render.
CompleteRows(results) ==
    { i \in DOMAIN results : {"name", "amount", "date"} \subseteq DOMAIN results[i] }

\* The count-summary form of n rows: the analysis and the note, no listing.
CountSummaryForm(n) ==
    /\ final_response = analysis \o <<"\n\n", NoteStart>> \o Decimal(n)
                                 \o <<" transactions)">>
    /\ ListingHeader \notin Range(final_response)
    /\ Count(final_response, LineStart) = 0

\* The itemized form with the given number of lines.
ItemizedForm(lines) ==
    /\ SubSeq(final_response, 1, Len(analysis) + 2) =
          analysis \o <<"\n\n", ListingHeader>>
    /\ NoteStart \notin Range(final_response)
    /\ Count(final_response, LineStart) = lines
    /\ Count(final_response, "\n") = lines

\* C11 as stated: with n error-free rows the response carries the header and
\* one line per row when 1 <= n <= 5, and the count note without lines when
\* n >= 6.
C11_OneLinePerRowUpToFive ==
    FormattedData =>
        IF Len(query_results) <= 5
        THEN ItemizedForm(Len(query_results))
        ELSE CountSummaryForm(Len(query_results))

\* C11, amended: with n error-free rows the response carries the header and
\* one line per row that has name, amount and date when 1 <= n <= 5, and the
\* count note without lines when n >= 6.
C11_ListingUpToFiveElseCount ==
    FormattedData =>
        IF Len(query_results) <= 5
        THEN ItemizedForm(Cardinality(CompleteRows(query_results)))
        ELSE CountSummaryForm(Len(query_results))

\* Five rows were itemized.
C11_Witness ==
    /\ FormattedData
    /\ Len(query_results) = 5
    /\ Count(final_response, LineStart) = 5
    /\ ListingHeader \in Range(final_response)

ExecutionFailed == run.exec = "raised"

\* C12: when executing the synthesized text fails, query_results is a single
\* error marker, nothing is raised out of the run, and the run goes on
\* through generate_insights and format_response to a returned response.
C12_ExecutionFailureBecomesErrorMarker ==
    ExecutionFailed =>
        /\ Len(query_results) = 1
        /\ DOMAIN query_results[1] = {"error"}
        /\ node \in {"generate_insights", "format_response", "END"}
        /\ IsPrefix(run.path, AnalyzePath)
        /\ Terminal => (run.path = AnalyzePath /\ final_response /= <<>>)

\* A run whose statement failed has returned its response.
C12_Witness ==
    /\ Terminal
    /\ ExecutionFailed
    /\ sql_query = <<"I cannot answer that.">>
    /\ query_results = <<ErrorMarker>>

\* C13: final_response is written by exactly one stage of a run, general_chat
\* on the general branch and format_response on the analyze branch, and once
\* it has been written no later stage changes it.
C13_FinalResponseWrittenOnce ==
    /\ [](Terminal => run.writers = IF Ran("general_chat")
                                    THEN <<"general_chat">>
                                    ELSE <<"format_response">>)
    /\ [](Len(run.writers) <= 1)
    /\ [][run.writers /= <<>> => final_response' = final_response]_vars

\* A general run has ended with the reply general_chat wrote.
C13_Witness ==
    /\ Terminal
    /\ run.writers = <<"general_chat">>
    /\ final_response /= <<>>

\* C17: the pipeline only reads the store: whatever text the model
\* synthesizes, the stored rows are those of before the run.
C17_PipelineLeavesStoreUnchanged ==
    (node /= "idle") =>
        /\ transactions = run.store
        /\ accounts = hist.durable.accounts
        /\ plaid_item.cursor = hist.start.cursor

\* C20 as stated: in every state of a run, the initial one included,
\* query_type is one of transaction, summary, general.
C20_QueryTypeAlwaysLabel ==
    (node /= "idle") => query_type \in Labels

\* C20, amended: query_type is the empty string in the initial state and
\* until classify_query has returned, one of transaction, summary, general in
\* every state after that, and only classify_query assigns it, once.
C20_QueryTypeLabelOnceClassified ==
    /\ [](node /= "idle" =>
            IF run.path = <<>> \/ (run.path = <<"classify_query">> /\ node = "raised")
            THEN query_type = <<>>
            ELSE query_type \in Labels)
    /\ [][query_type' /= query_type =>
            (node = "classify_query" /\ run.path = <<>>)]_vars

\* A run has ended with the label classify_query gave it.
C20_Witness ==
    /\ Terminal
    /\ query_type = Transaction
    /\ run.calls.classify_query = 1

(***************************************************************************)
(* Properties of calculate_summary.                                        *)
(***************************************************************************)
Summarised ==
    /\ summary /= NotCalled
    /\ data /= <<>>
    /\ "error" \notin DOMAIN data[1]

SummaryLabels == {"Food", "Coffee", "Gas"}

\* The labels of one row's category, read off its list or its JSON text.
LabelsOf(row) ==
    IF row.category.kind = "list" THEN row.category.items
    ELSE IF row.category.kind = "str" /\ row.category.text /= <<"null">>
    THEN LET at == { k \in DOMAIN row.category.text :
                        row.category.text[k] \in SummaryLabels }
         IN  [n \in 1..Cardinality(at) |->
                row.category.text[CHOOSE k \in at :
                                     Cardinality({ j \in at : j <= k }) = n]]
    ELSE <<>>

\* The places where label l stands in the rows' category lists.
Places(l) ==
    { <<i, j>> \in (DOMAIN data) \X (1..5) :
         j \in DOMAIN LabelsOf(data[i]) /\ LabelsOf(data[i])[j] = l }

RECURSIVE Total(_)
\* The sum of the amounts of the rows at the indices in S.
Total(S) ==
    IF S = {} THEN 0
    ELSE LET i == CHOOSE k \in S : TRUE IN data[i].amount + Total(S \ {i})

\* C19: 'monthly_trend' over non-empty, error-free rows returns a mapping
\* whose keys are exactly the months of the rows' dates and whose value for
\* a month is the sum of the signed amounts of the rows of that month.
C19_MonthlyTrendSumsSignedAmounts ==
    (Summarised /\ summary_type = "monthly_trend") =>
        /\ DOMAIN summary = {"monthly_trend"}
        /\ DOMAIN summary.monthly_trend =
              { [year |-> data[i].date.year, month |-> data[i].date.month] :
                  i \in DOMAIN data }
        /\ \A m \in DOMAIN summary.monthly_trend :
              summary.monthly_trend[m] =
                 Total({ i \in DOMAIN data : /\ data[i].date.year = m.year
                                             /\ data[i].date.month = m.month })

\* The dates 2024-01-05, 2024-01-20, 2024-02-01 with amounts 10, 20, 5 gave
\* 30 for 2024-01 and 5 for 2024-02.
C19_Witness ==
    /\ Summarised
    /\ summary_type = "monthly_trend"
    /\ Len(data) = 3
    /\ data[1].date = Day(2024, 1, 5) /\ data[1].amount = 1000
    /\ data[2].date = Day(2024, 1, 20) /\ data[2].amount = 2000
    /\ data[3].date = Day(2024, 2, 1) /\ data[3].amount = 500
    /\ summary.monthly_trend[[year |-> 2024, month |-> 1]] = 3000
    /\ summary.monthly_trend[[year |-> 2024, month |-> 2]] = 500
    /\ Cardinality(DOMAIN summary.monthly_trend) = 2

(***************************************************************************)
(* Properties of the sync-transactions operation.                          *)
(***************************************************************************)
RECURSIVE SumCounts(_, _)
SumCounts(rs, field) ==
    IF rs = <<>> THEN 0
    ELSE Head(rs).summary[field] + SumCounts(Tail(rs), field)

RECURSIVE AllErrors(_)
AllErrors(rs) ==
    IF rs = <<>> THEN <<>>
    ELSE Head(rs).summary.errors \o AllErrors(Tail(rs))

RouteDone == route.pc = "done"

\* C16: the operation syncs every connection whether or not the sync of
\* another one failed; a connection whose own sync did not fail has all its
\* pages committed and its cursor persisted, and what a connection committed
\* stays stored; added, modified and removed of the result are the sums of
\* the per-connection counts, errors is the concatenation of the
\* per-connection errors, and success holds exactly when errors is empty.
C16_FailedConnectionDoesNotStopOthers ==
    RouteDone =>
        LET r == route.response[1]
        IN  /\ Len(route.returned) = Len(route.items)
            /\ \A k \in DOMAIN route.returned :
                  /\ route.returned[k].summary.errors = <<>> =>
                        /\ route.returned[k].done = Len(route.feeds[k])
                        /\ route.items[k].cursor = Some(Len(route.feeds[k]))
                        /\ route.items[k].last_sync /= None
                  /\ RowsOfItem(route.items[k].id) = route.returned[k].rows
            /\ r.added = SumCounts(route.returned, "added")
            /\ r.modified = SumCounts(route.returned, "modified")
            /\ r.removed = SumCounts(route.returned, "removed")
            /\ r.errors = AllErrors(route.returned)
            /\ r.success <=> (r.errors = <<>>)

\* The first connection failed after counting a page, the second was synced
\* to the end and its row is stored.
C16_Witness ==
    /\ RouteDone
    /\ route.returned[1].summary.errors /= <<>>
    /\ route.returned[1].summary.added > 0
    /\ route.returned[2].summary.errors = <<>>
    /\ route.items[2].cursor = Some(Len(route.feeds[2]))
    /\ RowsOfItem(2) /= {}
    /\ ~route.response[1].success

(***************************************************************************)
(* Properties of overlapping invocations.                                  *)
(***************************************************************************)
BothReturned ==
    /\ other /= <<>>
    /\ pc = "returned"
    /\ other[1].ctx.pc = "returned"

\* Neither invocation met a failing provider or a failing store.
NoOutage ==
    \A e \in Range(sync_summary.errors) \cup Range(other[1].ctx.sync_summary.errors) :
        e \notin {"ApiException", "OperationalError"}

\* The ids the feed has delivered as added and never as removed.
DeliveredIds ==
    { id \in TxnIds :
        /\ \E k \in DOMAIN feed : \E i \in DOMAIN feed[k].added :
              feed[k].added[i].transaction_id = id
        /\ \A k \in DOMAIN feed : \A i \in DOMAIN feed[k].removed :
              feed[k].removed[i].transaction_id /= id }

\* The feed delivers each id as added at most once.
AddedOnce ==
    \A id \in TxnIds :
        Cardinality({ <<k, i>> \in (DOMAIN feed) \X (1..MaxAdded) :
                        /\ i \in DOMAIN feed[k].added
                        /\ feed[k].added[i].transaction_id = id }) <= 1

\* C14: when two invocations for one connection overlap, both complete
\* without error, the store ends with exactly one row for each delivered
\* transaction id, and the persisted cursor is the one an invocation wrote.
C14_OverlappingSyncsBothComplete ==
    (BothReturned /\ other[1].overlapped /\ NoOutage /\ AddedOnce) =>
        /\ sync_summary.errors = <<>>
        /\ other[1].ctx.sync_summary.errors = <<>>
        /\ \A id \in DeliveredIds : Cardinality(RowsOf(transactions, id)) = 1
        /\ \A id \in StoredIds(transactions) :
              Cardinality(RowsOf(transactions, id)) = 1
        /\ plaid_item.cursor \in {cursor, other[1].ctx.cursor}

(***************************************************************************)
(* Properties of concurrent pipeline runs.                                 *)
(***************************************************************************)
Fields(ctx) ==
    [messages |-> ctx.messages, query_type |-> ctx.query_type,
     sql_query |-> ctx.sql_query, query_results |-> ctx.query_results,
     analysis |-> ctx.analysis, final_response |-> ctx.final_response]

\* The state a run begins with, for the messages built from its inputs.
Begun(history) ==
    [messages |-> history, query_type |-> <<>>, sql_query |-> <<>>,
     query_results |-> <<>>, analysis |-> <<>>, final_response |-> <<>>]

\* What one stage makes of a state when it is given g and runs alone.
StageAlone(st, g) ==
    IF g.raised THEN st
    ELSE LET m == [st EXCEPT !.messages = st.messages \o st.messages]
         IN  CASE g.stage = "classify_query" ->
                    [m EXCEPT !.query_type = Classification(g.reply)]
               [] g.stage = "analyze_transactions" ->
                    [m EXCEPT !.sql_query = CleanSql(g.reply),
                              !.query_results = g.rows]
               [] g.stage = "generate_insights" ->
                    [m EXCEPT !.analysis = IF NoUsableRows(st.query_results)
                                           THEN Apology ELSE g.reply]
               [] g.stage = "general_chat" ->
                    [m EXCEPT !.final_response = g.reply]
               [] g.stage = "format_response" ->
                    [m EXCEPT !.final_response =
                        FormattedResponse(st.final_response, st.query_type,
                                          st.analysis, st.query_results)]

RECURSIVE Alone(_, _)
Alone(st, log) ==
    IF log = <<>> THEN st ELSE Alone(StageAlone(st, Head(log)), Tail(log))

AsAlone(ctx) == Fields(ctx) = Alone(Begun(ctx.run.history), ctx.run.log)

OneRequestPerPage ==
    LET n == Len(hist.asked)
    IN  /\ Len(hist.got) = n
        /\ \A i \in 1..(n - 1) : hist.got[i].has_more
        /\ \A i, j \in 1..n : i < j => Position(hist.asked[i]) < Position(hist.asked[j])
        /\ hist.requests \in {n + 1, n + 2}
        /\ hist.requests = n + 2 => sync_summary.errors = <<"ApiException">>

\* C22: every sync_item invocation eventually returns its summary, and has
\* then either completed (no error, the cursor and last_sync persisted) or
\* recorded a failure (errors is not empty); the page loop issues one
\* provider request per page and stops at the first page with
\* has_more = false.
C22_SyncItemReturns ==
    /\ [](pc \in InFlight => <>(pc = "returned"))
    /\ [](pc = "returned" =>
            \/ sync_summary.errors /= <<>>
            \/ /\ plaid_item.cursor = cursor
               /\ plaid_item.last_sync = Some(now)
               /\ ~hist.got[Len(hist.got)].has_more)
    /\ [](pc \in InFlight \cup {"returned"} =>
            (pc /= "accounts" => OneRequestPerPage))

\* A sync of two pages has returned completed, and another has returned a
\* failure.
C22_Witness ==
    /\ pc = "returned"
    /\ now = 2
    /\ sync_summary.errors /= <<>>
    /\ plaid_item.cursor = Some(2)
    /\ Len(feed) = 2

(***************************************************************************)
(* No call is issued again.                                                *)
(***************************************************************************)
Stages ==
    {"classify_query", "analyze_transactions", "generate_insights",
     "general_chat", "format_response"}

\* A provider request of the invocation got no response: it raised.
ProviderRaised ==
    hist.requests > Len(hist.got) + (IF hist.accs = <<>> THEN 0 ELSE 1)

\* C23: each of classify_query, the query synthesis, generate_insights and
\* general_chat makes at most one model call in a run, classify_query exactly
\* one; when a model call raises the run is over and no stage is executed
\* twice; when a provider call raises inside sync_item the invocation
\* returns with the error recorded and issues no further provider request.
C23_NoCallIssuedAgain ==
    /\ [](node /= "idle" =>
            /\ \A st \in DOMAIN run.calls : run.calls[st] <= 1
            /\ run.path /= <<>> => run.calls.classify_query = 1
            /\ \A st \in Stages : Count(run.path, st) <= 1
            /\ run.calls.general_chat + run.calls.analyze_transactions <= 1)
    /\ [][node = "raised" => UNCHANGED agentVars]_vars
    /\ [](ProviderRaised =>
            (pc = "returned" /\ sync_summary.errors = <<"ApiException">>))
    /\ [][ProviderRaised => hist'.requests <= hist.requests]_vars
    /\ [][hist'.requests > hist.requests =>
            (hist'.requests = hist.requests + 1 /\ sync_summary.errors = <<>>)]_vars

\* The model call of the query synthesis raised and the run is over.
C23_Witness ==
    /\ node = "raised"
    /\ run.path = <<"classify_query", "analyze_transactions">>
    /\ run.calls.analyze_transactions = 1
    /\ run.calls.classify_query = 1

(***************************************************************************)
(* What a completed sync leaves in the store.                              *)
(***************************************************************************)
\* The pages of the feed the invocation fetched.
FetchedPages ==
    { Position(hist.asked[i]) + 1 : i \in DOMAIN hist.asked } \cap DOMAIN feed

\* The account ids get_accounts returned to the invocation.
ReturnedAccountIds == { hist.accs[i].account_id : i \in DOMAIN hist.accs }

\* Page k delivers id as added, for one of the returned accounts.
AddedOn(k, id) ==
    \E i \in DOMAIN feed[k].added :
        /\ feed[k].added[i].transaction_id = id
        /\ feed[k].added[i].account_id \in ReturnedAccountIds

\* Page k or a later fetched page lists id as removed.
RemovedFrom(k, id) ==
    \E j \in FetchedPages :
        /\ j >= k
        /\ \E i \in DOMAIN feed[j].removed : feed[j].removed[i].transaction_id = id

\* C24: after a sync_item invocation that completed, every record delivered
\* as added on a page of that invocation, for an account get_accounts
\* returned in it, and not listed as removed afterwards, has a stored row
\* with its provider transaction id; the first sync of a connection included.
C24_AddedOfReturnedAccountStored ==
    Completed =>
        \A k \in FetchedPages : \A id \in TxnIds :
            (AddedOn(k, id) /\ ~RemovedFrom(k, id)) => RowsOf(transactions, id) /= {}

SameAccount(a, acc) ==
    /\ a.account_id = acc.account_id
    /\ a.attrs.name = acc.name
    /\ a.attrs.official_name = acc.official_name
    /\ a.attrs.type = acc.type
    /\ a.attrs.subtype = acc.subtype
    /\ a.attrs.balance_available = acc.balances.available
    /\ a.attrs.balance_current = acc.balances.current
    /\ a.attrs.balance_limit = acc.balances.limit
    /\ a.attrs.currency = acc.balances.iso_currency_code

\* C25: the store never holds two account rows with one provider account
\* id, and after a sync_item invocation that completed every account that
\* get_accounts returned has a row whose name, official name, type, subtype,
\* three balances and currency are those of that response, whatever the row
\* held before.
C25_AccountsOverwrittenWholesale ==
    /\ \A a, b \in accounts : a.account_id = b.account_id => a = b
    /\ Completed =>
          \A i \in DOMAIN hist.accs : \E a \in accounts : SameAccount(a, hist.accs[i])

\* A completed sync has overwritten the balances the row held before it.
C25_Witness ==
    /\ Completed
    /\ \E a \in accounts : \E b \in hist.prior :
          /\ a.id = b.id
          /\ b.attrs.balance_current = 100
          /\ a.attrs.balance_current = 250
          /\ a.attrs.balance_available = 250
    /\ hist.accs = <<AccountData(250)>>

(***************************************************************************)
(* What the stages leave alone.                                            *)
(***************************************************************************)
\* The run is on the general branch: classify_query sent it to general_chat.
OnGeneralBranch ==
    /\ run.path /= <<>>
    /\ node /= "idle"
    /\ query_type = General
    /\ ~(run.path = <<"classify_query">> /\ node = "raised")

\* C26: on a run that takes the general branch sql_query, query_results and
\* analysis keep their initial empty values through classify_query,
\* general_chat and format_response; and in every run messages is in every
\* state the sequence process_query built, whose last element is the
\* current user query.
C26_GeneralBranchFieldsStayEmpty ==
    /\ OnGeneralBranch =>
          /\ sql_query = <<>>
          /\ query_results = <<>>
          /\ analysis = <<>>
    /\ node /= "idle" =>
          /\ messages = run.history
          /\ messages[Len(messages)].type = "human"
          /\ messages[Len(messages)].content \in UserQueries

(***************************************************************************)
(* The lines of the itemized listing.                                      *)
(***************************************************************************)
Itemized ==
    /\ FormattedData
    /\ Len(query_results) <= 5

\* The n-th of the positions of final_response that hold the piece.
NthPlace(piece, n) ==
    LET at == { k \in DOMAIN final_response : final_response[k] = piece }
    IN  CHOOSE k \in at : Cardinality({ j \in at : j <= k }) = n

\* The number of cents written from position k up to the next blank.
RECURSIVE CentsAt(_, _)
CentsAt(k, sofar) ==
    IF final_response[k] = " " THEN sofar
    ELSE IF final_response[k] = "." THEN CentsAt(k + 1, sofar)
    ELSE CentsAt(k + 1, 10 * sofar
                        + (CHOOSE d \in 0..9 : Digits[d + 1] = final_response[k]))

\* The amounts and the labels the response shows, line by line.
ShownAmounts ==
    [n \in 1..Count(final_response, "$") |-> CentsAt(NthPlace("$", n) + 1, 0)]

ShownLabels == Select(final_response, {"spent", "received"})

\* The complete rows of the result, in their order.
RECURSIVE Complete(_)
Complete(results) ==
    IF results = <<>> THEN <<>>
    ELSE (IF {"name", "amount", "date"} \subseteq DOMAIN Head(results)
          THEN <<Head(results)>> ELSE <<>>) \o Complete(Tail(results))

\* C27: in the itemized listing each row that has name, amount and date is
\* shown with the absolute value of its amount and with 'spent' when the
\* amount is negative and 'received' when it is zero or positive; a row that
\* lacks one of the three fields has no line.
C27_LabelFollowsSignOfAmount ==
    Itemized =>
        LET rows == Complete(query_results)
        IN  /\ Count(final_response, LineStart) = Len(rows)
            /\ ShownAmounts = [n \in 1..Len(rows) |->
                                 IF rows[n].amount < 0 THEN 0 - rows[n].amount
                                 ELSE rows[n].amount]
            /\ ShownLabels = [n \in 1..Len(rows) |->
                                IF rows[n].amount < 0 THEN "spent" ELSE "received"]

\* The row of an ingested expense and a row of amount zero were labelled
\* received, a negative row spent, and the row without a date has no line.
C27_Witness ==
    /\ Itemized
    /\ query_results = <<Ingested, Free, Spent, Undated>>
    /\ ShownLabels = <<"received", "received", "spent">>
    /\ ShownAmounts = <<1250, 0, 1250>>

(***************************************************************************)
(* The counts of the summary.                                              *)
(***************************************************************************)
RECURSIVE Delivered(_, _)
\* The number of records the pages at the indices in S hold in one list.
Delivered(S, list) ==
    IF S = {} THEN 0
    ELSE LET k == CHOOSE j \in S : TRUE
         IN  Len(feed[k][list]) + Delivered(S \ {k}, list)

\* C28: the added, modified and removed counts sync_item returns are the
\* total lengths of the added, modified and removed lists of the pages it
\* fetched in the invocation, whether or not a record changed the store.
C28_CountsAreListLengths ==
    pc \in {"fetch", "commit", "persist", "returned"} =>
        /\ sync_summary.added = Delivered(FetchedPages, "added")
        /\ sync_summary.modified = Delivered(FetchedPages, "modified")
        /\ sync_summary.removed = Delivered(FetchedPages, "removed")

\* A first sync returned a failure: its first page modified and removed ids
\* that are not stored, its second page was rolled back, nothing is stored,
\* and all four records are counted.
C28_Witness ==
    /\ Failed
    /\ now = 1
    /\ hist.outcome = "IntegrityError"
    /\ transactions = {}
    /\ sync_summary.added = 2
    /\ sync_summary.modified = 1
    /\ sync_summary.removed = 1

(***************************************************************************)
(* Modified and removed records.                                           *)
(***************************************************************************)
ModifiedIds(resp) == { resp.modified[i].transaction_id : i \in DOMAIN resp.modified }

AddedIds(resp) == { resp.added[i].transaction_id : i \in DOMAIN resp.added }

\* The last record of the page's modified list with the id.
LastModified(id) ==
    sync_response.modified[
        Max({ i \in DOMAIN sync_response.modified :
                sync_response.modified[i].transaction_id = id })]

\* Row t with the four fields of the record and everything else as it was.
Overwritten(t, rec) ==
    [id |-> t.id, user_id |-> t.user_id,
     plaid_transaction_id |-> t.plaid_transaction_id, account_id |-> t.account_id,
     amount |-> rec.amount,
     date |-> [year |-> rec.date.year, month |-> rec.date.month,
               day |-> rec.date.day, hour |-> 0, minute |-> 0],
     name |-> rec.name,
     category |-> IF "category" \in DOMAIN rec THEN rec.category ELSE <<>>]

\* C29: once a page is committed, a modified record or a removed id that
\* had no stored row has created no row and has raised no error; a modified
\* record for a stored row has overwritten its amount, date, name and
\* category and nothing else of it, and every row the page does not name is
\* as it was.
C29_ModifiedAndRemovedTouchOnlyTheirRow ==
    /\ hist.outcome = "ok" =>
          /\ \A id \in (ModifiedIds(sync_response) \cup RemovedIds(sync_response))
                          \ (StoredIds(hist.before) \cup AddedIds(sync_response)) :
                RowsOf(transactions, id) = {}
          /\ \A t \in hist.before :
                IF t.plaid_transaction_id \in RemovedIds(sync_response) THEN TRUE
                ELSE IF t.plaid_transaction_id \in ModifiedIds(sync_response)
                THEN Overwritten(t, LastModified(t.plaid_transaction_id))
                        \in transactions
                ELSE t \in transactions
          /\ \A t \in transactions :
                \/ \E b \in hist.before : b.id = t.id
                \/ t.plaid_transaction_id \in AddedIds(sync_response)
    /\ hist.outcome = "IntegrityError" => sync_response.added /= <<>>

\* A committed page has modified the one stored row, which now holds the
\* record's values, and has removed an id that was not stored.
C29_Witness ==
    /\ hist.outcome = "ok"
    /\ StoredIds(hist.before) = {"t1"}
    /\ ModifiedIds(sync_response) = {"t1"}
    /\ RemovedIds(sync_response) = {"t2"}
    /\ \E b \in hist.before : \E t \in transactions :
          /\ b.id = t.id
          /\ b.amount = 1250
          /\ t.amount = -2000
          /\ t.name = "Payroll"
          /\ t.account_id = b.account_id
    /\ Cardinality(transactions) = 1

(***************************************************************************)
(* The account refresh and the first page.                                 *)
(***************************************************************************)
\* The invocation has refreshed the accounts and committed no page yet.
BeforeFirstCommit ==
    /\ pc \in {"fetch", "apply", "commit"}
    /\ hist.done = 0

\* C30: sync_item refreshes the accounts before it requests the first page
\* and does not commit the refresh on its own: until the first page is
\* committed the accounts table is as it was and the refresh is pending in
\* the session; the commit of the first page makes it durable; and when the
\* first page request, its application or its commit fails, the refresh is
\* rolled back with the page.
C30_AccountRefreshCommittedWithFirstPage ==
    /\ pc = "accounts" => (hist.asked = <<>> /\ hist.requests = 0)
    /\ hist.asked /= <<>> => hist.accs /= <<>>
    /\ BeforeFirstCommit =>
          /\ accounts = hist.prior
          /\ hist.durable.accounts = hist.prior
          /\ Len(session.new_accounts) + Cardinality(DOMAIN session.dirty_accounts)
                = Len(hist.accs)
    /\ (pc \in InFlight \cup {"returned"} /\ hist.done >= 1) =>
          \A i \in DOMAIN hist.accs : \E a \in accounts : SameAccount(a, hist.accs[i])
    /\ (Failed /\ hist.done = 0) =>
          /\ accounts = hist.prior
          /\ session = EmptySession

\* The commit of the first page failed: the new balances the refresh had
\* taken from the provider are gone with it, the row holds the old ones.
C30_Witness ==
    /\ Failed
    /\ hist.done = 0
    /\ hist.outcome \in {"IntegrityError", "OperationalError"}
    /\ hist.accs = <<AccountData(250)>>
    /\ \E a \in accounts : a.attrs.balance_current = 100
    /\ accounts = hist.prior

====
